---- MODULE Spec2Model ----
(***************************************************************************)
(* Model of server.js: the generation-tracking HTTP facade.  The state is  *)
(* the in-memory record list, its JSON backing file, the saved-image       *)
(* directory, the two process-wide metadata maps, the remote generation    *)
(* service, and the request handlers suspended at an await.                *)
(*                                                                         *)
(* Strings are sequences of one-character strings, so that startsWith,     *)
(* includes, trim, split and the regular expressions of the source are     *)
(* computed on the characters.  The three JavaScript non-values are        *)
(* one-element tuples that no character sequence can equal.                *)
(*                                                                         *)
(* An async handler is two actions: the part up to its await of the remote *)
(* adapter, and the part after it, which takes whatever answer the adapter *)
(* can give.  Between the two, any other handler may run.  The generation  *)
(* client is taken to be initialised and the store to start empty; a       *)
(* handler reads the clock once per synchronous part.                      *)
(***************************************************************************)
EXTENDS Integers, Sequences, FiniteSets, TLC

\* ------------------------------------------------------------------ bounds
\* (a specification takes its request budget from env.budget)
MaxRequests == 3        \* requests accepted in one behaviour
MaxSubmits == 2         \* the same, where only submission endpoints are exercised
MaxTime == 1            \* clock values 0..MaxTime (milliseconds)
MaxInflight == 2        \* handlers suspended at an await at one time
MaxFileLen == 2         \* elements of the backing file's array at startup
MaxRestarts == 1        \* restarts of the process in one behaviour
MaxPieces == 3          \* pieces a prompt given to sanitizePrompt is made of

\* ------------------------------------------------------- JavaScript values
NULL == <<"<null>">>
UNDEF == <<"<undefined>">>
ABSENT == <<"<absent>">>

\* A value that is not a string (a nonzero number read from the backing file).
NUMBER == <<"<number>">>

IsStr(v) == v \notin {NULL, UNDEF, ABSENT, NUMBER}
Truthy(v) == v = NUMBER \/ (IsStr(v) /\ v # <<>>)
OrElse(v, d) == IF Truthy(v) THEN v ELSE d

\* s.slice(a - 1, b): positions a..b of s, cut at the end of s.
Slice(s, a, b) == LET e == IF b < Len(s) THEN b ELSE Len(s)
                  IN [j \in 1..(e - a + 1) |-> s[a + j - 1]]
StartsWith(s, p) == Len(s) >= Len(p) /\ SubSeq(s, 1, Len(p)) = p
Includes(s, p) == \E i \in 1..(Len(s) - Len(p) + 1) : SubSeq(s, i, i + Len(p) - 1) = p
Substring(s, a, b) == Slice(s, a + 1, b)

RECURSIVE TrimStart(_)
TrimStart(s) == IF s # <<>> /\ Head(s) = " " THEN TrimStart(Tail(s)) ELSE s
RECURSIVE TrimEnd(_)
TrimEnd(s) == IF s # <<>> /\ s[Len(s)] = " " THEN TrimEnd(SubSeq(s, 1, Len(s) - 1)) ELSE s
Trim(s) == TrimEnd(TrimStart(s))

LowerLetters == <<"a","b","c","d","e","f","g","h","i","j","k","l","m","n","o","p","q","r","s","t","u","v","w","x","y","z">>
UpperLetters == <<"A","B","C","D","E","F","G","H","I","J","K","L","M","N","O","P","Q","R","S","T","U","V","W","X","Y","Z">>
UpperChar(c) == IF \E i \in 1..26 : LowerLetters[i] = c THEN UpperLetters[CHOOSE i \in 1..26 : LowerLetters[i] = c] ELSE c
LowerChar(c) == IF \E i \in 1..26 : UpperLetters[i] = c THEN LowerLetters[CHOOSE i \in 1..26 : UpperLetters[i] = c] ELSE c
ToUpperCase(s) == [i \in 1..Len(s) |-> UpperChar(s[i])]
ToLowerCase(s) == [i \in 1..Len(s) |-> LowerChar(s[i])]

\* s.split(/\s+/): the pieces between maximal runs of spaces (a leading or
\* trailing run yields an empty piece, as in JavaScript).
FirstAt(s, i, isSpace) ==
    LET at == {j \in i..Len(s) : (s[j] = " ") = isSpace}
    IN IF at = {} THEN Len(s) + 1 ELSE CHOOSE j \in at : \A k \in at : j <= k
RECURSIVE SplitFrom(_, _)
SplitFrom(s, i) ==
    LET j == FirstAt(s, i, TRUE)
    IN IF j > Len(s) THEN <<SubSeq(s, i, Len(s))>>
       ELSE <<SubSeq(s, i, j - 1)>> \o SplitFrom(s, FirstAt(s, j, FALSE))
SplitWs(s) == SplitFrom(s, 1)

RECURSIVE JoinSp(_)
JoinSp(ws) == IF ws = <<>> THEN <<>>
              ELSE IF Len(ws) = 1 THEN ws[1]
              ELSE ws[1] \o <<" ">> \o JoinSp(Tail(ws))

RECURSIVE FilterLonger(_, _)
FilterLonger(ws, n) == IF ws = <<>> THEN <<>>
                       ELSE IF Len(Head(ws)) > n THEN <<Head(ws)>> \o FilterLonger(Tail(ws), n)
                       ELSE FilterLonger(Tail(ws), n)

\* ------------------------------------------------------ literals of the code
DataImageSlash == <<"d","a","t","a",":","i","m","a","g","e","/">>
DataImage == <<"d","a","t","a",":","i","m","a","g","e">>
DataColon == <<"d","a","t","a",":">>
Base64Comma == <<";","b","a","s","e","6","4",",">>
DemoClient == <<"D","e","m","o"," ","C","l","i","e","n","t">>
GeneratedDash == <<"g","e","n","e","r","a","t","e","d","-">>
DefaultClient == <<"A","I"," ","A","B","S","T","R","A","C","T","I","O","N","S">>
StudiosSuffix == <<" ","S","T","U","D","I","O","S">>
AiCreation == <<"a","i"," ","c","r","e","a","t","i","o","n">>
DefaultBackground == <<"#","f","0","f","4","f","f">>
ImageBasedPrompt == <<"I","m","a","g","e","-","b","a","s","e","d"," ","p","r","o","m","p","t">>
NoPromptAvailable == <<"N","o"," ","p","r","o","m","p","t"," ","a","v","a","i","l","a","b","l","e">>
UntitledDash == <<"U","n","t","i","t","l","e","d","-">>
ImageDash == <<"I","m","a","g","e","-">>
ImgDash == <<"i","m","g","-">>
TempDash == <<"t","e","m","p","-">>
SavedImagesPrefix == <<"/","s","a","v","e","d","_","i","m","a","g","e","s","/">>
DotJpg == <<".","j","p","g">>
Http == <<"h","t","t","p">>
LocalhostPrefix == <<"h","t","t","p",":","/","/","l","o","c","a","l","h","o","s","t",":">>
PortStr == <<"5","0","0","2">>
PORT == 5002
FALLBACK_PORT == 5003
EADDRINUSE == <<"E","A","D","D","R","I","N","U","S","E">>
EACCES == <<"E","A","C","C","E","S">>
TypeImage == <<"i","m","a","g","e">>
TypeLumaImage == <<"l","u","m","a","-","i","m","a","g","e">>
CreativeArtwork == <<"A"," ","c","r","e","a","t","i","v","e"," ","d","i","g","i","t","a","l"," ","a","r","t","w","o","r","k">>
BeautifulArtwork == <<"A"," ","b","e","a","u","t","i","f","u","l"," ","d","i","g","i","t","a","l"," ","a","r","t","w","o","r","k">>
Blocklist == << <<"w","e","a","p","o","n">>, <<"g","u","n">>, <<"k","n","i","f","e">>, <<"b","l","o","o","d">>,
                <<"g","o","r","e">>, <<"e","x","p","l","i","c","i","t">>, <<"n","u","d","e">>, <<"n","a","k","e","d">>,
                <<"s","e","x","y">>, <<"v","i","o","l","e","n","c","e">>, <<"v","i","o","l","e","n","t">>,
                <<"k","i","l","l">>, <<"k","i","l","l","i","n","g">>, <<"m","u","r","d","e","r">> >>
ModerationWords == { <<"m","o","d","e","r","a","t","i","o","n">>, <<"s","a","f","e","t","y">>,
                     <<"c","o","n","t","e","n","t"," ","p","o","l","i","c","y">>, <<"r","e","j","e","c","t","e","d">> }
AllowedMimes == { <<"i","m","a","g","e","/","j","p","e","g">>, <<"i","m","a","g","e","/","p","n","g">>,
                  <<"i","m","a","g","e","/","w","e","b","p">> }
Digits == <<"0","1","2","3","4","5","6","7","8","9">>

\* Texts that the handlers only emit (never inspect) are kept as one piece.
ErrPromptRequired == <<"Prompt is required">>
ErrValidImageRequired == <<"Valid base64 image data is required">>
ErrImageRequired == <<"Image data is required">>
ErrFailedToSaveImage == <<"Failed to save image: Failed to save image to disk">>
ErrModerationRejected == <<"The image or prompt was rejected by content moderation after multiple attempts">>
ErrUnsupportedFormat == <<"Unsupported image format">>
ErrMatchNull == <<"Cannot read properties of null (reading '1')">>
ErrAssetsUndefined == <<"Cannot read properties of undefined (reading 'image')">>
ErrNotFound == <<"Video not found">>
UnknownFailure == <<"Unknown failure reason">>
ErrNullBackground == <<"Cannot read properties of null (reading 'background')">>
ErrStartsWithNotFunction == <<"video.originalPrompt.startsWith is not a function">>
SuggestDocs == <<"Check LumaAI documentation for proper request format">>
SuggestFormat == <<"Please use JPEG, PNG, or WebP images only">>
SuggestModeration == <<"Please try a completely different image or prompt that complies with content guidelines.">>

\* ------------------------------------------------------------ time and ids
\* new Date().toISOString() keeps a ':' and a '.', which saveImageToDisk
\* replaces; Date.now() prints the same instant in decimal.
IsoString(t) == <<Digits[t + 1], ":", "0", ".", "0", "Z">>
DateNowStr(t) == <<Digits[t + 1]>>
ReplaceColonDot(s) == [i \in 1..Len(s) |-> IF s[i] \in {":", "."} THEN "-" ELSE s[i]]

\* ------------------------------------------------------------ request inputs
PromptLong == <<"a"," ","m","i","s","t","y"," ","f","o","r","e","s","t">>
PromptShort == <<"b","e","a","c","h">>
PromptShortCaps == <<"B","e","a","c","h">>
PromptTiny == <<"o","x">>
PromptPadded == <<" ","o","x"," "," ">>
PromptImage == <<"d","a","t","a",":","i","m","a","g","e","/","p","n","g",";","b","a","s","e","6","4",",","Q","Q">>

PromptBlocked == <<"o","l","d"," ","g","u","n"," ","s","h","o","p">>

ImgValid == <<"d","a","t","a",":","i","m","a","g","e","/","p","n","g",";","b","a","s","e","6","4",",","Q","Q">>
ImgEmptyPayload == <<"d","a","t","a",":","i","m","a","g","e","/","p","n","g",";","b","a","s","e","6","4",",">>
ImgNotData == <<"Q","Q">>

TitleGiven == <<"D","u","n","e">>
ClientGiven == <<"A","c","m","e">>
BackgroundGiven == <<"#","0","0","0">>
PlaceholderClient == <<"A","I"," ","C","r","e","a","t","i","o","n">>

\* A request body: the keys the handlers destructure (an absent key is ABSENT).
Body(prompt, image, title, client, background) ==
    [prompt |-> prompt, image |-> image, title |-> title, client |-> client,
     background |-> background]

VideoRequests ==
    { Body(ABSENT, ABSENT, ABSENT, ABSENT, ABSENT),
      Body(<<>>, ImgValid, ABSENT, ABSENT, ABSENT),
      Body(PromptShort, ABSENT, ABSENT, ABSENT, ABSENT),
      Body(PromptLong, ABSENT, ABSENT, ABSENT, ABSENT),
      Body(PromptLong, ImgValid, ABSENT, ABSENT, ABSENT),
      Body(PromptLong, ImgEmptyPayload, TitleGiven, ClientGiven, BackgroundGiven),
      Body(PromptImage, ImgValid, ABSENT, PlaceholderClient, ABSENT),
      Body(PromptLong, ImgNotData, ABSENT, ABSENT, ABSENT) }

SaveRequests ==
    { Body(PromptLong, ABSENT, ABSENT, ABSENT, ABSENT),
      Body(PromptLong, ImgNotData, ABSENT, ABSENT, ABSENT),
      Body(PromptLong, ImgEmptyPayload, ABSENT, ABSENT, ABSENT),
      Body(PromptImage, ImgValid, ABSENT, ABSENT, ABSENT),
      Body(ABSENT, ImgValid, TitleGiven, ClientGiven, ABSENT) }

ImageRequests ==
    { Body(ABSENT, ABSENT, ABSENT, ABSENT, ABSENT),
      Body(<<>>, ABSENT, ABSENT, ABSENT, ABSENT),
      Body(PromptLong, ABSENT, ABSENT, ABSENT, ABSENT),
      Body(PromptBlocked, ImgValid, TitleGiven, ClientGiven, BackgroundGiven) }

\* POST /generate-video bodies whose prompt is short enough to be enhanced.
ShortRequests ==
    { Body(PromptShort, ABSENT, ABSENT, ABSENT, ABSENT),
      Body(PromptShortCaps, ImgValid, ABSENT, ABSENT, ABSENT),
      Body(PromptTiny, ABSENT, ABSENT, ABSENT, ABSENT),
      Body(PromptPadded, ABSENT, ABSENT, ABSENT, ABSENT) }

\* Bodies of POST /generate-video that differ in the client name and in the
\* words of the prompt.
PromptOneWord == <<"b","i","g"," ","s","u","n","s","e","t","s">>
PromptNoWord == <<"a"," ","b"," ","c"," ","d"," ","e"," ","f">>
BlankClient == <<" "," ">>
PlaceholderCaps == <<"a","i"," ","C","R","E","A","T","I","O","N">>
ClientRequests ==
    { Body(PromptLong, ImgValid, ABSENT, ABSENT, ABSENT),
      Body(PromptLong, ImgValid, ABSENT, BlankClient, ABSENT),
      Body(PromptLong, ABSENT, ABSENT, PlaceholderCaps, ABSENT),
      Body(PromptOneWord, ImgValid, ABSENT, PlaceholderClient, ABSENT),
      Body(PromptNoWord, ImgValid, ABSENT, ABSENT, ABSENT),
      Body(PromptImage, ImgValid, ABSENT, <<>>, ABSENT),
      Body(PromptShortCaps, ImgValid, ABSENT, ABSENT, ABSENT),
      Body(PromptOneWord, ImgValid, ABSENT, ClientGiven, ABSENT) }

\* The strings of the request pools.  The character-level functions below are
\* tabulated over them once; on any other string they are computed directly.
AllRequests == VideoRequests \cup SaveRequests \cup ImageRequests
PromptPool == {r.prompt : r \in AllRequests} \ {ABSENT}
ImagePool == {r.image : r \in AllRequests} \ {ABSENT}
Memo(table, Op(_), x) == IF x \in DOMAIN table THEN table[x] ELSE Op(x)

GenId1 == <<"g","e","n","-","0","0","1">>
GenId2 == <<"g","e","n","-","0","0","2">>
GenIds == {GenId1, GenId2}
RandStr == <<"k","7","z","3">>

\* Messages of the errors the remote adapter throws.
MsgModeration == <<"m","o","d","e","r","a","t","i","o","n">>
MsgTimeout == <<"t","i","m","e","o","u","t">>
AdapterErrors == {MsgModeration, MsgTimeout}

VideoAssetUrl(id) == <<"h","t","t","p","s",":","/","/","v","/">> \o id
ImageAssetUrl(id) == <<"h","t","t","p","s",":","/","/","i","/">> \o id
FailureReason == <<"n","s","f","w">>

\* ------------------------------------------------------------------ records
EmptyRecord == [id |-> ABSENT, type |-> ABSENT, url |-> ABSENT, imageUrl |-> ABSENT,
                title |-> ABSENT, client |-> ABSENT, background |-> ABSENT,
                prompt |-> ABSENT, originalPrompt |-> ABSENT,
                imageDescription |-> ABSENT, timestamp |-> ABSENT]

\* { ...a, ...b }: every own key of b (a key whose value is undefined too)
\* replaces a's.
Spread(a, b) == [f \in DOMAIN a |-> IF b[f] # ABSENT THEN b[f] ELSE a[f]]

\* JSON.stringify then JSON.parse of one record: keys whose value is
\* undefined are dropped, null and strings are kept.
JsonRoundTrip(rec) == [f \in DOMAIN rec |-> IF rec[f] = UNDEF THEN ABSENT ELSE rec[f]]

\* Reading a property: an absent key reads as undefined.
Get(v) == IF v = ABSENT THEN UNDEF ELSE v

FindIndex(list, id) == IF \E i \in 1..Len(list) : list[i].id = id
                       THEN CHOOSE i \in 1..Len(list) :
                              list[i].id = id /\ \A j \in 1..(i - 1) : list[j].id # id
                       ELSE 0

\* -------------------------------------------------------------- pure helpers
isBase64ImagePrompt(prompt) ==
    IsStr(prompt) /\ prompt # <<>>
    /\ StartsWith(prompt, DataImageSlash) /\ Includes(prompt, Base64Comma)

IsImagePromptTable == [p \in PromptPool |-> isBase64ImagePrompt(p)]
IsImagePrompt(prompt) == Memo(IsImagePromptTable, isBase64ImagePrompt, prompt)

MimeChars == {LowerLetters[i] : i \in 1..26} \cup {UpperLetters[i] : i \in 1..26} \cup {"-", "+", "/"}
RECURSIVE RunEnd(_, _)
RunEnd(s, i) == IF i <= Len(s) /\ s[i] \in MimeChars THEN RunEnd(s, i + 1) ELSE i - 1

\* base64Image.match(/^data:([A-Za-z-+\/]+);base64,(.+)$/)
DataUriMatches(s) ==
    /\ IsStr(s)
    /\ StartsWith(s, DataColon)
    /\ LET k == RunEnd(s, 6)
       IN /\ k >= 6
          /\ Slice(s, k + 1, k + 8) = Base64Comma
          /\ Len(s) >= k + 9
          /\ \A i \in (k + 9)..Len(s) : s[i] # "\n"
DataUriMime(s) == Slice(s, 6, RunEnd(s, 6))
DataUriTable == [im \in ImagePool |-> DataUriMatches(im)]

\* saveImageToDisk: null (saved = FALSE) when the data URI does not match or
\* the write throws (diskOk = FALSE), else the description of the file written.
saveImageToDisk(base64Image, generationId, t, diskOk) ==
    IF ~Memo(DataUriTable, DataUriMatches, base64Image) \/ ~diskOk
    THEN [saved |-> FALSE, url |-> NULL, type |-> NULL, filename |-> NULL]
    ELSE LET filename == generationId \o <<"_">> \o ReplaceColonDot(IsoString(t)) \o DotJpg
         IN [saved |-> TRUE, url |-> SavedImagesPrefix \o filename,
             type |-> DataUriMime(base64Image), filename |-> filename]

DirAfterSave(dir, saved) == IF ~saved.saved THEN dir ELSE dir \cup {saved.filename}

\* saveVideosToFile: the whole list is serialised over the file; a failing
\* write leaves the file as it was and returns null.
FileOf(list) == [kind |-> "array", recs |-> [i \in 1..Len(list) |-> JsonRoundTrip(list[i])]]
\* Faulty variant of saveVideosToFile: only the record written last is kept.
saveVideosToFileLastOnly(list, file, writeOk) ==
    IF writeOk /\ list # <<>> THEN FileOf(<<list[Len(list)]>>) ELSE file

\* Faulty variant of saveVideosToFile: the file is written only when the
\* list has grown.
saveVideosToFileOnGrowth(list, file, writeOk) ==
    IF writeOk /\ Len(list) # Len(file.recs) THEN FileOf(list) ELSE file
\* Faulty variant of saveVideosToFile: a failing write truncates the file.
saveVideosToFileTruncates(list, file, writeOk) ==
    IF writeOk THEN FileOf(list) ELSE [kind |-> "empty", recs |-> <<>>]
saveVideosToFile(list, file, writeOk) == IF writeOk THEN FileOf(list) ELSE file

\* The client name derived from a prompt: the first one or two words longer
\* than 3 characters, upper-cased, plus " STUDIOS".
\* Faulty variant of StudioName: only the first word is taken.
StudioNameFirstWord(prompt) ==
    LET words == FilterLonger(SplitWs(prompt), 3)
    IN IF Len(words) > 0 THEN ToUpperCase(words[1]) \o StudiosSuffix ELSE DefaultClient

StudioName(prompt) ==
    LET words == FilterLonger(SplitWs(prompt), 3)
    IN IF Len(words) > 0
       THEN ToUpperCase(JoinSp(SubSeq(words, 1, IF Len(words) < 2 THEN Len(words) ELSE 2))) \o StudiosSuffix
       ELSE DefaultClient

StudioNameTable == [p \in PromptPool |-> StudioName(p)]

\* Faulty variant of AbsoluteUrl: the relative URL is returned as it is.
RelativeUrl(url) == url

\* `http://localhost:${server.address().port}${url}`
AbsoluteUrl(url) == LocalhostPrefix \o PortStr \o url

\* The Prompt Enhancer (server.js calls enhancePrompt without defining it):
\* identity above 30 characters, else the table entry of a known short
\* subject (case-insensitive), else the generic template.
BeachDescription == <<"A"," ","s","u","n","n","y"," ","b","e","a","c","h"," ","w","i","t","h"," ","g","e","n","t","l","e"," ","w","a","v","e","s">>
TemplateHead == <<"A"," ","c","i","n","e","m","a","t","i","c",","," ","d","e","t","a","i","l","e","d"," ","v","i","e","w"," ","o","f"," ">>
TemplateTail == <<" ","w","i","t","h"," ","b","e","a","u","t","i","f","u","l"," ","l","i","g","h","t","i","n","g",","," ","r","i","c","h"," ","t","e","x","t","u","r","e","s",","," ","a","n","d"," ","v","i","b","r","a","n","t"," ","c","o","l","o","r","s"," ","i","n"," ","a"," ","n","a","t","u","r","a","l"," ","s","e","t","t","i","n","g">>
enhancePrompt(prompt) ==
    IF Len(prompt) > 30 THEN prompt
    ELSE IF ToLowerCase(prompt) = <<"b","e","a","c","h">> THEN BeachDescription
    ELSE TemplateHead \o prompt \o TemplateTail

\* -------------------------------------------------------------------- state
VARIABLES generatedVideos,   \* the in-memory record list
          videosFile,        \* generated_videos.json
          imagesDir,         \* file names under public/saved_images
          uploadedImages,    \* global.uploadedImages: generation id -> metadata
          imageGenerations,  \* global.imageGenerations: generation id -> metadata
          remote,            \* the remote service: generation id -> job
          inflight,          \* handlers suspended at an adapter call
          resp,              \* the last response sent
          now,               \* the last clock value read
          nReq,              \* requests accepted so far
          env                \* what the environment may do in this behaviour

vars == <<generatedVideos, videosFile, imagesDir, uploadedImages, imageGenerations,
          remote, inflight, resp, now, nReq, env>>

NoJob == [kind |-> "none", state |-> "none", assets |-> "none", reason |-> UNDEF]
NoMeta == [present |-> FALSE, title |-> ABSENT, client |-> ABSENT, background |-> ABSENT,
           prompt |-> ABSENT, originalPrompt |-> ABSENT, actualPrompt |-> ABSENT,
           imageUrl |-> ABSENT, imageSaved |-> FALSE, timestamp |-> ABSENT, attempts |-> 0]
NoResponse == [op |-> "none", code |-> 0, error |-> ABSENT, suggestion |-> ABSENT,
               state |-> "none", attempts |-> 0, body |-> EmptyRecord, list |-> <<>>]
Response(op, code, error) == [NoResponse EXCEPT !.op = op, !.code = code, !.error = error]
Suggest(r, suggestion) == [r EXCEPT !.suggestion = suggestion]
NoHandler == [op |-> "none", n |-> 0, id |-> ABSENT, prompt |-> ABSENT, sent |-> ABSENT,
              image |-> ABSENT, title |-> ABSENT, client |-> ABSENT, background |-> ABSENT,
              weight |-> 0, attempts |-> 0, modErr |-> ABSENT]

InitCommon ==
    /\ generatedVideos = <<>>
    /\ videosFile = [kind |-> "absent", recs |-> <<>>]
    /\ imagesDir = {}
    /\ uploadedImages = [g \in GenIds |-> NoMeta]
    /\ imageGenerations = [g \in GenIds |-> NoMeta]
    /\ remote = [g \in GenIds |-> NoJob]
    /\ inflight = {}
    /\ resp = NoResponse
    /\ now = 0
    /\ nReq = 0

\* env.reuseIds: the remote service may give a new job an id it has used.
\* env.writeFaults: a write of the backing file may fail.
\* env.budget: the number of requests accepted.
\* env.phase: "boot" before the backing file is loaded, "loaded" before the
\* startup sanitization, "up" while the server listens, "crashed" after an
\* exception nothing caught, "exited" after process.exit.
\* env.attempts: the ports startServer was called with, in order.
\* env.errors: the error codes of the bind attempts that failed, in order.
\* env.listening: the ports the process listens on.
\* env.restarts: the number of times the process was stopped and started.
\* env.before: the entries global.uploadedImages had in earlier lifetimes of
\* the process (kept for the statement of properties; no action reads it).
Init == InitCommon /\ env = [reuseIds |-> FALSE, writeFaults |-> FALSE, budget |-> MaxRequests,
                             phase |-> "up",
           attempts |-> <<PORT>>, errors |-> <<>>, listening |-> {PORT},
           restarts |-> 0, before |-> [g \in GenIds |-> NoMeta]]

StoreIds == {generatedVideos[i].id : i \in 1..Len(generatedVideos)}
Clock == {t \in now..MaxTime : t <= now + 1}
WriteOutcomes == IF env.writeFaults THEN BOOLEAN ELSE {TRUE}
Accept == nReq < env.budget /\ nReq' = nReq + 1
Suspended(op) == {h \in inflight : h.op = op}
\* A request that reaches its await joins the suspended handlers.
Admit == Cardinality(inflight) < MaxInflight

\* -------------------------------------------------------------------- startup
\* Elements of a JSON array that are not objects.
JsonNull == [json |-> NULL]
JsonNumber == [json |-> NUMBER]
IsObject(v) == "id" \in DOMAIN v

\* Lines 31-48: the list after loading.  Only a file that parses to an array
\* gives a non-empty list; an unparseable file throws inside the try block.
LoadedVideos(file) == IF file.kind = "array" THEN file.recs ELSE <<>>

StartupLoad ==
    /\ env.phase = "boot"
    /\ generatedVideos' = LoadedVideos(videosFile)
    /\ env' = [env EXCEPT !.phase = "loaded"]
    /\ UNCHANGED <<videosFile, imagesDir, uploadedImages, imageGenerations, remote, inflight,
                   resp, now, nReq>>

\* Lines 137-139 on one element: whether the prompt is to be repaired.
PromptMissing(video) ==
    (video.prompt = NoPromptAvailable \/ ~Truthy(Get(video.prompt))) /\ Truthy(Get(video.originalPrompt))

\* The exception one iteration of the loop of sanitizeVideoRecords throws, or
\* ABSENT: reading a property of null (line 119), calling startsWith on a
\* value that is not a string (line 139).  The code is not in strict mode, so
\* an assignment to a property of a number is ignored.
SanitizeThrows(video) ==
    IF video = JsonNull THEN ErrNullBackground
    ELSE IF IsObject(video) /\ PromptMissing(video) /\ ~IsStr(video.originalPrompt)
    THEN ErrStartsWithNotFunction
    ELSE ABSENT

\* Lines 116-143: one iteration that does not throw, on the element at
\* 0-based index i - 1.
SanitizeOne(video, i, t) ==
    IF ~IsObject(video) THEN video
    ELSE [video EXCEPT
            !.background = IF ~Truthy(Get(@)) THEN DefaultBackground ELSE @,
            !.client = IF @ = DemoClient THEN DefaultClient ELSE @,
            !.id = IF ~Truthy(Get(@)) THEN GeneratedDash \o DateNowStr(t) \o <<"-", Digits[i]>> ELSE @,
            !.prompt = IF PromptMissing(video) /\ ~StartsWith(video.originalPrompt, DataImageSlash)
                       THEN video.originalPrompt ELSE @]

\* Whether the iteration sets `modified`.
SanitizeModifies(video) ==
    IF ~IsObject(video) THEN TRUE
    ELSE \/ ~Truthy(Get(video.background))
         \/ video.client = DemoClient
         \/ ~Truthy(Get(video.id))
         \/ PromptMissing(video) /\ ~StartsWith(video.originalPrompt, DataImageSlash)

\* sanitizeVideoRecords: the list it leaves, whether it was modified, and the
\* exception that ended the loop (ABSENT when it ran through).
sanitizeVideoRecords(list, t) ==
    LET throwers == {i \in 1..Len(list) : SanitizeThrows(list[i]) # ABSENT}
        k == IF throwers = {} THEN Len(list) + 1
             ELSE CHOOSE i \in throwers : \A j \in throwers : i <= j
    IN [list |-> [i \in 1..Len(list) |-> IF i < k THEN SanitizeOne(list[i], i, t) ELSE list[i]],
        modified |-> \E i \in 1..(k - 1) : SanitizeModifies(list[i]),
        threw |-> IF k > Len(list) THEN ABSENT ELSE SanitizeThrows(list[k])]

\* Line 154: the sanitization pass at startup.  Nothing catches what it
\* throws: the process ends with exit code 1.
StartupSanitize(t, writeOk) ==
    /\ env.phase = "loaded"
    /\ now' = t
    /\ UNCHANGED <<imagesDir, uploadedImages, imageGenerations, remote, inflight, nReq>>
    /\ LET r == sanitizeVideoRecords(generatedVideos, t)
       IN /\ generatedVideos' = r.list
          /\ IF r.threw # ABSENT
             THEN /\ env' = [env EXCEPT !.phase = "crashed"]
                  /\ resp' = Response("startup", 1, r.threw)
                  /\ UNCHANGED videosFile
             ELSE /\ env' = [env EXCEPT !.phase = "up"]
                  /\ videosFile' = IF r.modified THEN saveVideosToFile(r.list, videosFile, writeOk)
                                   ELSE videosFile
                  /\ UNCHANGED resp

\* ---------------------------------------------------------- POST /save-image
\* The random suffix of the id is taken never to repeat within one millisecond.
SaveImage(req, t, diskOk, writeOk) ==
    /\ Accept
    /\ now' = t
    /\ UNCHANGED <<uploadedImages, imageGenerations, remote, inflight, env>>
    /\ IF ~Truthy(req.image)
       THEN /\ resp' = Response("save-image", 400, ErrImageRequired)
            /\ UNCHANGED <<generatedVideos, videosFile, imagesDir>>
       ELSE IF ~StartsWith(req.image, DataImageSlash)
       THEN /\ resp' = Response("save-image", 400, ErrValidImageRequired)
            /\ UNCHANGED <<generatedVideos, videosFile, imagesDir>>
       ELSE LET generationId == ImgDash \o DateNowStr(t) \o <<"-">> \o RandStr
                clientName == IF ~Truthy(req.client) \/ Trim(req.client) = <<>>
                              THEN IF Truthy(req.prompt) THEN Memo(StudioNameTable, StudioName, req.prompt) ELSE DefaultClient
                              ELSE req.client
                savedImageData == saveImageToDisk(req.image, generationId, t, diskOk)
            IN IF ~savedImageData.saved
               THEN /\ resp' = Response("save-image", 500, ErrFailedToSaveImage)
                    /\ UNCHANGED <<generatedVideos, videosFile, imagesDir>>
               ELSE LET imageRecord == [EmptyRecord EXCEPT
                                          !.id = generationId,
                                          !.type = TypeImage,
                                          !.url = NULL,
                                          !.imageUrl = savedImageData.url,
                                          !.title = OrElse(req.title, ImageDash \o Substring(generationId, 0, 6)),
                                          !.client = clientName,
                                          !.background = DefaultBackground,
                                          !.prompt = OrElse(req.prompt, NoPromptAvailable),
                                          !.timestamp = IsoString(t)]
                    IN /\ generationId \notin StoreIds
                       /\ generatedVideos' = Append(generatedVideos, imageRecord)
                       /\ videosFile' = saveVideosToFile(generatedVideos', videosFile, writeOk)
                       /\ imagesDir' = DirAfterSave(imagesDir, savedImageData)
                       /\ resp' = [Response("save-image", 200, ABSENT) EXCEPT
                                     !.body = [EmptyRecord EXCEPT
                                                 !.id = generationId,
                                                 !.imageUrl = AbsoluteUrl(savedImageData.url)]]

\* ------------------------------------------------------- the remote service
\* The id the service gives a new job: an unused one, or (env.reuseIds) any.
AssignableIds ==
    IF env.reuseIds THEN GenIds
    ELSE IF remote[GenId1].kind = "none" THEN {GenId1}
    ELSE IF remote[GenId2].kind = "none" THEN {GenId2}
    ELSE {}

CreateOutcomes ==
    {[ok |-> TRUE, id |-> g, msg |-> ABSENT] : g \in AssignableIds}
    \cup {[ok |-> FALSE, id |-> ABSENT, msg |-> m] : m \in AdapterErrors}

\* A job runs pending -> processing -> completed | failed.  A completed job
\* has no `assets` object ("none"), one without the medium ("empty") or one
\* with it ("media"); a failed job may or may not carry a failure_reason.  The program sees a job only
\* through client.generations.get, so the job's progress is folded into the
\* poll that observes it: `remote` holds the last state a poll saw, and the
\* next poll sees any state the job can have reached from there.
FinishedJobs(job) ==
    {[job EXCEPT !.state = "failed", !.reason = r] : r \in {FailureReason, UNDEF}}
    \cup {[job EXCEPT !.state = "completed", !.assets = a] : a \in {"none", "empty", "media"}}
ObservableJobs(job) ==
    IF job.state = "pending"
    THEN {job, [job EXCEPT !.state = "processing"]} \cup FinishedJobs(job)
    ELSE IF job.state = "processing"
    THEN {job} \cup FinishedJobs(job)
    ELSE {job}

\* What client.generations.get(id) can answer: an error (unknown id, network)
\* or the job as it now is.
GetOutcomes(g) ==
    {[ok |-> FALSE, job |-> NoJob, msg |-> MsgTimeout]}
    \cup (IF remote[g].kind = "none" THEN {}
          ELSE {[ok |-> TRUE, job |-> j, msg |-> ABSENT] : j \in ObservableJobs(remote[g])})

\* Faulty variant of AssetVideo: every completed video job has a video asset.
AssetVideoWhenCompleted(job, g) ==
    IF job.state = "completed" /\ job.kind = "video" THEN VideoAssetUrl(g) ELSE UNDEF
\* status.assets.video and status.assets.image of a job
AssetVideo(job, g) == IF job.state = "completed" /\ job.assets = "media" /\ job.kind = "video"
                      THEN VideoAssetUrl(g) ELSE UNDEF
AssetImage(job, g) == IF job.state = "completed" /\ job.assets = "media" /\ job.kind = "image"
                      THEN ImageAssetUrl(g) ELSE UNDEF

\* Faulty variant of FailureText: the remote reason is dropped.
FailureTextUnknown(status) == UnknownFailure

\* status.failure_reason || 'Unknown failure reason'
FailureText(status) == OrElse(status.reason, UnknownFailure)

\* ------------------------------------------------------ POST /generate-video
\* Up to the await of client.generations.create.  (negative_prompt, model,
\* resolution and duration are passed through and are not modelled; the
\* generation client is taken to be initialised.)
VideoClientName(clientName, prompt) ==
    IF ~Truthy(clientName) \/ Trim(clientName) = <<>> \/ ToLowerCase(clientName) = AiCreation
    THEN IF Truthy(prompt) /\ ~isBase64ImagePrompt(prompt) THEN StudioName(prompt) ELSE DefaultClient
    ELSE clientName

\* Faulty variant of EnhancedPrompt: a short prompt is submitted as it is.
EnhancedPromptRaw(prompt) == prompt

\* Lines 351-353: a prompt of fewer than 10 characters, trimmed, is enhanced.
EnhancedPrompt(prompt) == IF Len(Trim(prompt)) < 10 THEN enhancePrompt(prompt) ELSE prompt

\* Faulty variant of VideoValidation: the prompt is not looked at.
VideoValidationSkipsPrompt(req) ==
    IF Truthy(req.image) /\ ~StartsWith(req.image, DataImageSlash)
    THEN Response("generate-video", 400, ErrValidImageRequired)
    ELSE NoResponse

\* The validation of lines 342-349: the error response, or code 0 to go on.
VideoValidation(req) ==
    IF ~Truthy(req.prompt) THEN Response("generate-video", 400, ErrPromptRequired)
    ELSE IF Truthy(req.image) /\ ~StartsWith(req.image, DataImageSlash)
    THEN Response("generate-video", 400, ErrValidImageRequired)
    ELSE NoResponse

\* The handler as it stands at the await: prompt and client name settled.
VideoHandler(req) ==
    LET prompt == EnhancedPrompt(req.prompt)
    IN [NoHandler EXCEPT !.op = "generate-video", !.prompt = prompt, !.sent = prompt,
                         !.image = req.image, !.title = req.title,
                         !.client = VideoClientName(req.client, prompt),
                         !.background = req.background]

VideoValidationTable == [req \in VideoRequests |-> VideoValidation(req)]
VideoHandlerTable == [req \in VideoRequests |->
                        IF VideoValidation(req).code = 0 THEN VideoHandler(req) ELSE NoHandler]

GenerateVideoBegin(req) ==
    /\ Accept
    /\ UNCHANGED <<generatedVideos, videosFile, imagesDir, uploadedImages, imageGenerations,
                   remote, now, env>>
    /\ IF Memo(VideoValidationTable, VideoValidation, req).code # 0
       THEN /\ resp' = Memo(VideoValidationTable, VideoValidation, req)
            /\ UNCHANGED inflight
       ELSE /\ Admit
            /\ inflight' = inflight \cup {[Memo(VideoHandlerTable, VideoHandler, req) EXCEPT !.n = nReq']}
            /\ UNCHANGED resp

\* Faulty variant of prelimVideoRecord: an image that was not saved is
\* recorded under the static prefix instead of null.
prelimVideoRecordDangling(h, id, savedImageData, t) ==
    [EmptyRecord EXCEPT
       !.id = id,
       !.url = NULL,
       !.imageUrl = IF savedImageData.saved THEN savedImageData.url ELSE SavedImagesPrefix,
       !.prompt = h.prompt,
       !.originalPrompt = h.prompt,
       !.timestamp = IsoString(t)]

\* The preliminary record written at submission (lines 417-427).
prelimVideoRecord(h, id, savedImageData, t) ==
    [EmptyRecord EXCEPT
       !.id = id,
       !.url = NULL,
       !.imageUrl = savedImageData.url,
       !.title = OrElse(h.title, UntitledDash \o Substring(id, 0, 6)),
       !.client = h.client,
       !.background = OrElse(h.background, DefaultBackground),
       !.prompt = IF ~IsImagePrompt(h.prompt) THEN h.prompt ELSE ImageBasedPrompt,
       !.originalPrompt = h.prompt,
       !.timestamp = IsoString(t)]

\* The submission-time upsert (lines 429-440).
UpsertPrelim(list, rec) ==
    LET existingIndex == FindIndex(list, rec.id)
    IN IF existingIndex > 0
       THEN [list EXCEPT ![existingIndex] = Spread(list[existingIndex], rec)]
       ELSE Append(list, rec)

\* Faulty variant of CreateFailure: the adapter's message is replaced.
CreateFailureMasked(msg) ==
    Suggest(Response("generate-video", 500, <<"Video generation failed">>), SuggestDocs)

\* Lines 460-467: the answer to an error thrown by the adapter's create call.
CreateFailure(msg) == Suggest(Response("generate-video", 500, msg), SuggestDocs)

\* After the await: the adapter has answered with `out`.
GenerateVideoResume(h, out, t, diskOk, writeOk) ==
    /\ h \in inflight /\ h.op = "generate-video"
    /\ inflight' = inflight \ {h}
    /\ UNCHANGED <<imageGenerations, nReq, env>>
    /\ IF ~out.ok
       THEN /\ resp' = CreateFailure(out.msg)
            /\ UNCHANGED <<generatedVideos, videosFile, imagesDir, uploadedImages, remote, now>>
       ELSE LET id == out.id
                savedImageData == saveImageToDisk(h.image, id, t, diskOk)
                imageData == [NoMeta EXCEPT
                                !.present = TRUE,
                                !.title = Get(h.title),
                                !.client = h.client,
                                !.background = Get(h.background),
                                !.prompt = h.prompt,
                                !.originalPrompt = h.prompt,
                                !.imageUrl = savedImageData.url,
                                !.imageSaved = savedImageData.saved,
                                !.timestamp = IsoString(t)]
            IN /\ remote' = [remote EXCEPT ![id] = [NoJob EXCEPT !.kind = "video", !.state = "pending"]]
               /\ IF Truthy(h.image)
                  THEN /\ now' = t
                       /\ imagesDir' = DirAfterSave(imagesDir, savedImageData)
                       /\ uploadedImages' = [uploadedImages EXCEPT ![id] = imageData]
                       /\ generatedVideos' = UpsertPrelim(generatedVideos, prelimVideoRecord(h, id, savedImageData, t))
                       /\ videosFile' = saveVideosToFile(generatedVideos', videosFile, writeOk)
                       /\ resp' = [Response("generate-video", 200, ABSENT) EXCEPT
                                     !.state = "pending",
                                     !.body = [EmptyRecord EXCEPT
                                                 !.id = id, !.prompt = h.prompt,
                                                 !.imageUrl = IF savedImageData.saved
                                                              THEN AbsoluteUrl(savedImageData.url) ELSE NULL]]
                  ELSE /\ resp' = [Response("generate-video", 200, ABSENT) EXCEPT
                                     !.state = "pending",
                                     !.body = [EmptyRecord EXCEPT
                                                 !.id = id, !.prompt = h.prompt, !.imageUrl = NULL]]
                       /\ UNCHANGED <<generatedVideos, videosFile, imagesDir, uploadedImages, now>>

\* ----------------------------------------------- GET /video-status/:generationId
\* Up to the await of client.generations.get.
StatusBegin(op, id) ==
    /\ Accept
    /\ Admit
    /\ inflight' = inflight \cup {[NoHandler EXCEPT !.op = op, !.n = nReq', !.id = id]}
    /\ UNCHANGED <<generatedVideos, videosFile, imagesDir, uploadedImages, imageGenerations,
                   remote, resp, now, env>>

VideoStatusBegin(id) == StatusBegin("video-status", id)

\* Lines 487-523.  No entry of global.uploadedImages ever carries an `image`
\* key (the only writer is line 413), so the branches guarded by
\* imageData.image (lines 495-518 and 546-552) cannot run and only the
\* `else if (imageData.imageUrl)` arm remains.
ImageSavedUrl(imageData) ==
    IF imageData.present /\ Truthy(imageData.imageUrl) THEN imageData.imageUrl ELSE NULL

\* Lines 531-588: the record built when the job is seen completed.
StatusClientName(imageData) ==
    IF imageData.present /\ Truthy(imageData.client) THEN imageData.client
    ELSE IF imageData.present /\ Truthy(imageData.prompt)
         THEN LET words == FilterLonger(SplitWs(imageData.prompt), 2)
              IN IF Len(words) > 0
                 THEN ToUpperCase(JoinSp(SubSeq(words, 1, IF Len(words) < 3 THEN Len(words) ELSE 3)))
                 ELSE DefaultClient
         ELSE DefaultClient

StatusDescription(imageData, list, generationId) ==
    LET fromPrompt == IF imageData.present /\ Truthy(imageData.prompt)
                         /\ ~IsImagePrompt(imageData.prompt)
                      THEN imageData.prompt ELSE NULL
        i == FindIndex(list, generationId)
    IN IF Truthy(fromPrompt) THEN fromPrompt
       ELSE IF i > 0 /\ Truthy(list[i].imageDescription) THEN list[i].imageDescription
       ELSE IF i > 0 /\ Truthy(list[i].prompt) /\ ~IsImagePrompt(list[i].prompt)
            THEN list[i].prompt
       ELSE NULL

\* Faulty variant of StatusPrompt: the stored prompt is passed on as it is.
StatusPromptRaw(imageData) ==
    IF imageData.present /\ Truthy(imageData.prompt) THEN imageData.prompt ELSE NoPromptAvailable

StatusPrompt(imageData) ==
    IF imageData.present /\ Truthy(imageData.originalPrompt)
       /\ ~IsImagePrompt(imageData.originalPrompt)
    THEN imageData.originalPrompt
    ELSE IF imageData.present /\ Truthy(imageData.prompt)
         THEN IF IsImagePrompt(imageData.prompt) THEN ImageBasedPrompt ELSE imageData.prompt
         ELSE NoPromptAvailable

videoRecord(generationId, assetVideo, imageData, list, t) ==
    [EmptyRecord EXCEPT
       !.id = generationId,
       !.url = assetVideo,
       !.imageUrl = ImageSavedUrl(imageData),
       !.title = IF imageData.present /\ Truthy(imageData.title) THEN imageData.title
                 ELSE UntitledDash \o Substring(generationId, 0, 6),
       !.client = StatusClientName(imageData),
       !.background = IF imageData.present THEN imageData.background ELSE NULL,
       !.prompt = StatusPrompt(imageData),
       !.imageDescription = StatusDescription(imageData, list, generationId),
       !.timestamp = IsoString(t)]

\* Lines 590-603: the completion-time upsert, which keeps a known imageUrl
\* when the new record has none.
\* Faulty variant of UpsertVideo: the finalized record replaces the list.
UpsertVideoAlone(list, rec) == <<rec>>

UpsertVideo(list, rec) ==
    LET existingVideoIndex == FindIndex(list, rec.id)
    IN IF existingVideoIndex > 0
       THEN LET old == list[existingVideoIndex]
                kept == IF ~Truthy(rec.imageUrl) /\ Truthy(old.imageUrl)
                        THEN [rec EXCEPT !.imageUrl = old.imageUrl] ELSE rec
            IN [list EXCEPT ![existingVideoIndex] = Spread(old, kept)]
       ELSE Append(list, rec)

\* Lines 609-624: what the completed response reports beside the status.
CompletedImageUrl(imageData, list, generationId) ==
    LET i == FindIndex(list, generationId)
    IN IF Truthy(ImageSavedUrl(imageData)) THEN AbsoluteUrl(ImageSavedUrl(imageData))
       ELSE IF i > 0 /\ Truthy(list[i].imageUrl) /\ ~StartsWith(list[i].imageUrl, Http)
            THEN AbsoluteUrl(list[i].imageUrl)
       ELSE IF i > 0 /\ Truthy(list[i].imageUrl) THEN list[i].imageUrl
       ELSE NULL

CompletedDescription(list, generationId) ==
    LET i == FindIndex(list, generationId)
    IN IF i > 0 /\ Truthy(list[i].imageDescription) THEN list[i].imageDescription ELSE NULL

\* Lines 647-655.
ProgressImageUrl(imageData) ==
    IF Truthy(ImageSavedUrl(imageData)) THEN AbsoluteUrl(ImageSavedUrl(imageData))
    ELSE IF imageData.present /\ Truthy(imageData.imageUrl)
         THEN IF StartsWith(imageData.imageUrl, Http) THEN imageData.imageUrl
              ELSE AbsoluteUrl(imageData.imageUrl)
    ELSE NULL

\* After the await: the adapter has answered with `out`.
VideoStatusResume(h, out, t, writeOk) ==
    /\ h \in inflight /\ h.op = "video-status"
    /\ inflight' = inflight \ {h}
    /\ UNCHANGED <<imagesDir, uploadedImages, imageGenerations, nReq, env>>
    /\ IF ~out.ok
       THEN /\ resp' = Response("video-status", 500, out.msg)
            /\ UNCHANGED <<generatedVideos, videosFile, remote, now>>
       ELSE LET generationId == h.id
                status == out.job
                imageData == uploadedImages[generationId]
                assetVideo == AssetVideo(status, generationId)
            IN /\ remote' = [remote EXCEPT ![generationId] = status]
               /\ IF status.state = "completed"
                  THEN /\ IF Truthy(assetVideo)
                          THEN /\ now' = t
                               /\ generatedVideos' =
                                     UpsertVideo(generatedVideos,
                                                 videoRecord(generationId, assetVideo, imageData, generatedVideos, t))
                               /\ videosFile' = saveVideosToFile(generatedVideos', videosFile, writeOk)
                          ELSE UNCHANGED <<generatedVideos, videosFile, now>>
                       /\ resp' = [Response("video-status", 200, ABSENT) EXCEPT
                                     !.state = "completed",
                                     !.body = [EmptyRecord EXCEPT
                                                 !.id = generationId,
                                                 !.url = assetVideo,
                                                 !.imageUrl = CompletedImageUrl(imageData, generatedVideos', generationId),
                                                 !.imageDescription = CompletedDescription(generatedVideos', generationId)]]
                  ELSE IF status.state = "failed"
                  THEN /\ resp' = [Response("video-status", 200, ABSENT) EXCEPT
                                     !.state = "failed",
                                     !.error = FailureText(status),
                                     !.body = [EmptyRecord EXCEPT !.id = generationId]]
                       /\ UNCHANGED <<generatedVideos, videosFile, now>>
                  ELSE /\ resp' = [Response("video-status", 200, ABSENT) EXCEPT
                                     !.state = status.state,
                                     !.body = [EmptyRecord EXCEPT
                                                 !.id = generationId,
                                                 !.imageUrl = ProgressImageUrl(imageData)]]
                       /\ UNCHANGED <<generatedVideos, videosFile, now>>

\* ------------------------------------------------------ POST /generate-image
\* sanitizePrompt: the blocklisted terms are cut out left to right (the first
\* alternative that matches at a position wins), runs of spaces collapse, the
\* result is trimmed, and an empty result becomes the generic prompt.
RECURSIVE StripTerms(_)
StripTerms(s) ==
    IF s = <<>> THEN <<>>
    ELSE LET hits == {k \in 1..Len(Blocklist) : StartsWith(ToLowerCase(s), Blocklist[k])}
         IN IF hits # {}
            THEN LET k == CHOOSE x \in hits : \A y \in hits : x <= y
                 IN StripTerms(SubSeq(s, Len(Blocklist[k]) + 1, Len(s)))
            ELSE <<Head(s)>> \o StripTerms(Tail(s))

RECURSIVE CollapseSpaces(_)
CollapseSpaces(s) ==
    IF Len(s) < 2 THEN s
    ELSE IF s[1] = " " /\ s[2] = " " THEN CollapseSpaces(Tail(s))
    ELSE <<Head(s)>> \o CollapseSpaces(Tail(s))

sanitizePrompt(prompt) ==
    IF ~Truthy(prompt) THEN <<>>
    ELSE LET sanitized == Trim(CollapseSpaces(StripTerms(prompt)))
         IN IF sanitized = <<>> THEN CreativeArtwork ELSE sanitized

\* image.match(/data:(image\/[a-z]+);base64,/i): the captured MIME type of
\* the first match, or NULL.
RECURSIVE LetterRunEnd(_, _)
LetterRunEnd(s, i) ==
    IF i <= Len(s) /\ (\E k \in 1..26 : LowerLetters[k] = LowerChar(s[i]))
    THEN LetterRunEnd(s, i + 1) ELSE i - 1
MimeMatchAt(s, i) ==
    /\ ToLowerCase(Slice(s, i, i + 10)) = DataImageSlash
    /\ LetterRunEnd(s, i + 11) >= i + 11
    /\ ToLowerCase(Slice(s, LetterRunEnd(s, i + 11) + 1, LetterRunEnd(s, i + 11) + 8)) = Base64Comma
ImageMime(s) ==
    LET at == {i \in 1..Len(s) : MimeMatchAt(s, i)}
    IN IF at = {} THEN NULL
       ELSE LET i == CHOOSE x \in at : \A y \in at : x <= y
            IN Slice(s, i + 5, LetterRunEnd(s, i + 11))

ImageMimeTable == [im \in ImagePool |-> ImageMime(im)]
SanitizedTable == [p \in PromptPool |-> sanitizePrompt(p)]

\* Lines 957-973: which adapter errors the retry loop takes for a moderation
\* rejection.
IsModerationError(msg) == \E w \in ModerationWords : Includes(msg, w)

\* Up to the first await of client.generations.image.create (attempt 1).
\* The 10 MB size check of line 881 is out of reach of the modelled images.
GenerateImageBegin(req, t, diskOk) ==
    /\ Accept
    /\ UNCHANGED <<generatedVideos, videosFile, uploadedImages, imageGenerations, remote, env>>
    /\ IF ~Truthy(req.prompt)
       THEN /\ resp' = Response("generate-image", 400, ErrPromptRequired)
            /\ UNCHANGED <<inflight, imagesDir, now>>
       ELSE IF Truthy(req.image) /\ StartsWith(req.image, DataImageSlash)
       THEN IF Memo(ImageMimeTable, ImageMime, req.image) = NULL
            THEN /\ resp' = Suggest(Response("generate-image", 500, ErrMatchNull), SuggestDocs)
                 /\ UNCHANGED <<inflight, imagesDir, now>>
            ELSE IF ToLowerCase(Memo(ImageMimeTable, ImageMime, req.image)) \notin AllowedMimes
            THEN /\ resp' = Suggest(Response("generate-image", 400, ErrUnsupportedFormat), SuggestFormat)
                 /\ UNCHANGED <<inflight, imagesDir, now>>
            ELSE LET savedImage == saveImageToDisk(req.image, TempDash \o DateNowStr(t), t, diskOk)
                     h == [NoHandler EXCEPT !.op = "generate-image", !.n = nReq',
                                            !.prompt = req.prompt,
                                            !.sent = req.prompt, !.image = req.image,
                                            !.title = req.title, !.client = req.client,
                                            !.background = req.background,
                                            !.weight = IF savedImage.saved THEN 85 ELSE 0,
                                            !.attempts = 1]
                 IN /\ Admit
                    /\ now' = t
                    /\ imagesDir' = DirAfterSave(imagesDir, savedImage)
                    /\ inflight' = inflight \cup {h}
                    /\ UNCHANGED resp
       ELSE LET h == [NoHandler EXCEPT !.op = "generate-image", !.n = nReq',
                                       !.prompt = req.prompt,
                                       !.sent = req.prompt, !.image = req.image,
                                       !.title = req.title, !.client = req.client,
                                       !.background = req.background, !.attempts = 1]
            IN /\ Admit
               /\ inflight' = inflight \cup {h}
               /\ UNCHANGED <<resp, imagesDir, now>>

\* Faulty variant of maxAttempts: one attempt too many.
maxAttemptsPlusOne == 3 + 1
maxAttempts == 3

\* Faulty variant of NextAttempt: the third attempt repeats the sanitized
\* prompt and keeps the image reference weight.
NextAttemptNoFallback(h, msg) ==
    LET attempts == h.attempts + 1
    IN [h EXCEPT !.attempts = attempts,
                 !.modErr = msg,
                 !.sent = Memo(SanitizedTable, sanitizePrompt, h.prompt)]

\* Lines 929-951: the parameters of the next attempt.
NextAttempt(h, msg) ==
    LET attempts == h.attempts + 1
    IN [h EXCEPT !.attempts = attempts,
                 !.modErr = msg,
                 !.sent = IF attempts = 2 THEN Memo(SanitizedTable, sanitizePrompt, h.sent)
                          ELSE IF attempts = 3 THEN BeautifulArtwork ELSE h.sent,
                 !.weight = IF attempts = 3 /\ h.weight > 0 THEN 50 ELSE h.weight]

\* Faulty variant of UpstreamFailure: the adapter's message is masked.
UpstreamFailureMasked(msg) ==
    Response("generate-image", 500, <<"Failed to generate image after multiple attempts">>)

\* Lines 1020-1027: the answer to an error that is not taken for moderation.
UpstreamFailure(msg) == Suggest(Response("generate-image", 500, msg), SuggestDocs)

\* Faulty variant of ModerationRejected: the rejection is answered like any
\* other adapter error.
ModerationRejectedAsUpstream(attempts, details) ==
    [UpstreamFailure(details) EXCEPT !.attempts = attempts]

\* Lines 976-983: the answer when every attempt was rejected for moderation;
\* `details` (the last rejection's message) is carried in body.prompt.
ModerationRejected(attempts, details) ==
    [Suggest(Response("generate-image", 400, ErrModerationRejected), SuggestModeration) EXCEPT
       !.attempts = attempts,
       !.body = [EmptyRecord EXCEPT !.prompt = details]]

\* After an await of the retry loop: the adapter has answered with `out`.
\* (resp.attempts is the number of adapter calls the request made; the code
\* returns it to the client on success only.)
GenerateImageResume(h, out, t) ==
    /\ h \in inflight /\ h.op = "generate-image"
    /\ UNCHANGED <<generatedVideos, videosFile, imagesDir, uploadedImages, nReq, env>>
    /\ IF out.ok
       THEN LET generationId == out.id
            IN /\ inflight' = inflight \ {h}
               /\ remote' = [remote EXCEPT ![generationId] = [NoJob EXCEPT !.kind = "image", !.state = "pending"]]
               /\ now' = t
               /\ imageGenerations' =
                     [imageGenerations EXCEPT ![generationId] =
                        [NoMeta EXCEPT
                           !.present = TRUE,
                           !.title = OrElse(h.title, ImageDash \o Substring(generationId, 0, 6)),
                           !.client = OrElse(h.client, DefaultClient),
                           !.background = OrElse(h.background, DefaultBackground),
                           !.prompt = h.prompt,
                           !.actualPrompt = h.sent,
                           !.timestamp = IsoString(t),
                           !.attempts = h.attempts]]
               /\ resp' = [Response("generate-image", 200, ABSENT) EXCEPT
                             !.state = "pending",
                             !.attempts = h.attempts,
                             !.body = [EmptyRecord EXCEPT
                                         !.id = generationId, !.prompt = h.sent,
                                         !.originalPrompt = h.prompt]]
       ELSE IF IsModerationError(out.msg)
       THEN IF h.attempts < maxAttempts
            THEN /\ inflight' = (inflight \ {h}) \cup {NextAttempt(h, out.msg)}
                 /\ UNCHANGED <<imageGenerations, remote, resp, now>>
            ELSE /\ inflight' = inflight \ {h}
                 /\ resp' = ModerationRejected(h.attempts, out.msg)
                 /\ UNCHANGED <<imageGenerations, remote, now>>
       ELSE /\ inflight' = inflight \ {h}
            /\ resp' = [UpstreamFailure(out.msg) EXCEPT !.attempts = h.attempts]
            /\ UNCHANGED <<imageGenerations, remote, now>>

\* ----------------------------------------------- GET /image-status/:generationId
ImageStatusBegin(id) == StatusBegin("image-status", id)

imageRecord(generationId, imageUrl, imageData, t) ==
    [EmptyRecord EXCEPT
       !.id = generationId,
       !.type = TypeLumaImage,
       !.url = imageUrl,
       !.imageUrl = imageUrl,
       !.title = IF imageData.present /\ Truthy(imageData.title) THEN imageData.title
                 ELSE ImageDash \o Substring(generationId, 0, 6),
       !.client = IF imageData.present /\ Truthy(imageData.client) THEN imageData.client
                  ELSE DefaultClient,
       !.background = IF imageData.present /\ Truthy(imageData.background) THEN imageData.background
                      ELSE DefaultBackground,
       !.prompt = IF imageData.present /\ Truthy(imageData.prompt) THEN imageData.prompt
                  ELSE NoPromptAvailable,
       !.timestamp = IsoString(t)]

ImageStatusResume(h, out, t, writeOk) ==
    /\ h \in inflight /\ h.op = "image-status"
    /\ inflight' = inflight \ {h}
    /\ UNCHANGED <<imagesDir, uploadedImages, imageGenerations, nReq, env>>
    /\ IF ~out.ok
       THEN /\ resp' = Response("image-status", 500, out.msg)
            /\ UNCHANGED <<generatedVideos, videosFile, remote, now>>
       ELSE LET generationId == h.id
                status == out.job
                imageUrl == AssetImage(status, generationId)
                imageData == imageGenerations[generationId]
            IN /\ remote' = [remote EXCEPT ![generationId] = status]
               /\ IF status.state = "completed" /\ status.assets = "none"
                  THEN /\ resp' = Response("image-status", 500, ErrAssetsUndefined)
                       /\ UNCHANGED <<generatedVideos, videosFile, now>>
                  ELSE IF status.state = "completed"
                  THEN /\ IF Truthy(imageUrl)
                          THEN /\ now' = t
                               /\ generatedVideos' = Append(generatedVideos, imageRecord(generationId, imageUrl, imageData, t))
                               /\ videosFile' = saveVideosToFile(generatedVideos', videosFile, writeOk)
                          ELSE UNCHANGED <<generatedVideos, videosFile, now>>
                       /\ resp' = [Response("image-status", 200, ABSENT) EXCEPT
                                     !.state = "completed",
                                     !.body = [EmptyRecord EXCEPT !.id = generationId, !.url = imageUrl]]
                  ELSE IF status.state = "failed"
                  THEN /\ resp' = [Response("image-status", 200, ABSENT) EXCEPT
                                     !.state = "failed",
                                     !.error = FailureText(status),
                                     !.body = [EmptyRecord EXCEPT !.id = generationId]]
                       /\ UNCHANGED <<generatedVideos, videosFile, now>>
                  ELSE /\ resp' = [Response("image-status", 200, ABSENT) EXCEPT
                                     !.state = status.state,
                                     !.body = [EmptyRecord EXCEPT !.id = generationId]]
                       /\ UNCHANGED <<generatedVideos, videosFile, now>>

\* ------------------------------------------------ GET /videos, GET /videos/:id
\* The cleaned copy of one record that both read endpoints return: only
\* imageUrl is looked at.  (GET /videos also adds isImageOnly to records of
\* type 'image'; the flag repeats `type` and is left out.)
\* Faulty variant of CleanVideo: inline image data is left in imageUrl.
CleanVideoKeepsData(video) ==
    IF Truthy(video.imageUrl) /\ ~StartsWith(video.imageUrl, Http)
                              /\ ~Includes(video.imageUrl, DataImage)
    THEN [video EXCEPT !.imageUrl = AbsoluteUrl(video.imageUrl)]
    ELSE video

CleanVideo(video) ==
    IF Truthy(video.imageUrl)
    THEN IF Includes(video.imageUrl, DataImage)
         THEN [video EXCEPT !.imageUrl = NULL]
         ELSE IF ~StartsWith(video.imageUrl, Http)
              THEN [video EXCEPT !.imageUrl = AbsoluteUrl(video.imageUrl)]
              ELSE video
    ELSE video

GetVideos ==
    /\ Accept
    /\ resp' = [Response("videos", 200, ABSENT) EXCEPT
                  !.list = [i \in 1..Len(generatedVideos) |-> CleanVideo(generatedVideos[i])]]
    /\ UNCHANGED <<generatedVideos, videosFile, imagesDir, uploadedImages, imageGenerations,
                   remote, inflight, now, env>>

GetVideo(videoId) ==
    /\ Accept
    /\ LET i == FindIndex(generatedVideos, videoId)
       IN resp' = IF i = 0 THEN Response("video", 404, ErrNotFound)
                  ELSE [Response("video", 200, ABSENT) EXCEPT !.body = CleanVideo(generatedVideos[i])]
    /\ UNCHANGED <<generatedVideos, videosFile, imagesDir, uploadedImages, imageGenerations,
                   remote, inflight, now, env>>

\* ------------------------------------------- upload-and-generate-description
\* The strings generateImageDescriptionFromBase64 returns (lines 197-269).
DescKeyMissing == <<"I","m","a","g","e"," ","d","e","s","c","r","i","p","t","i","o","n"," ","u","n","a","v","a","i","l","a","b","l","e"," ","-"," ","G","R","O","Q"," ","A","P","I"," ","k","e","y"," ","i","s"," ","m","i","s","s","i","n","g",".">>
DescUnexpected == <<"E","r","r","o","r",":"," ","U","n","e","x","p","e","c","t","e","d"," ","r","e","s","p","o","n","s","e"," ","f","r","o","m"," ","d","e","s","c","r","i","p","t","i","o","n"," ","s","e","r","v","i","c","e">>
DescNone == <<"N","o"," ","d","e","s","c","r","i","p","t","i","o","n"," ","a","v","a","i","l","a","b","l","e",".">>
DescApiStatus == <<"E","r","r","o","r"," ","g","e","n","e","r","a","t","i","n","g"," ","i","m","a","g","e"," ","d","e","s","c","r","i","p","t","i","o","n","."," ","A","P","I"," ","S","t","a","t","u","s",":"," ","5","0","0","."," ","M","e","s","s","a","g","e",":"," ","U","n","k","n","o","w","n"," ","e","r","r","o","r">>
DescNoResponse == <<"E","r","r","o","r",":"," ","N","o"," ","r","e","s","p","o","n","s","e"," ","r","e","c","e","i","v","e","d"," ","f","r","o","m"," ","i","m","a","g","e"," ","d","e","s","c","r","i","p","t","i","o","n"," ","s","e","r","v","i","c","e">>
DescTimedOut == <<"E","r","r","o","r",":"," ","R","e","q","u","e","s","t"," ","t","o"," ","g","e","n","e","r","a","t","e"," ","i","m","a","g","e"," ","d","e","s","c","r","i","p","t","i","o","n"," ","t","i","m","e","d"," ","o","u","t",".">>
DescTryLater == <<"E","r","r","o","r"," ","g","e","n","e","r","a","t","i","n","g"," ","i","m","a","g","e"," ","d","e","s","c","r","i","p","t","i","o","n","."," ","P","l","e","a","s","e"," ","t","r","y"," ","a","g","a","i","n"," ","l","a","t","e","r",".">>
ErrorColon == <<"E","r","r","o","r",":">>
ContentGiven == <<"a"," ","r","e","d"," ","d","o","o","r">>
ImgTwoCommas == <<"d","a","t","a",":","i","m","a","g","e","/","p","n","g",";","b","a","s","e","6","4",",","Q","Q",",","Q","Q">>
ErrImageDataRequired == <<"Image data is required">>
ErrImageNotString == <<"Image data must be a string">>
ErrInvalidImageFormat == <<"Invalid image format. Must be a base64 data URI with image/ MIME type">>
ErrInvalidBase64 == <<"Invalid base64 image format">>
ErrEmptyImage == <<"Empty image data">>

\* What the description service does with a call: the key is missing and no
\* call is made; it answers with a description, with empty content or with a
\* body of another shape; it answers with a status outside 2xx; the request
\* gets no response or times out (axios sets error.request in both cases);
\* the request could not be set up.
DescribeFailures == {"no-key", "bad-shape", "status", "no-response", "timeout", "setup"}
DescribeOutcomes == {"content", "empty-content"} \cup DescribeFailures

generateImageDescriptionFromBase64(outcome) ==
    IF outcome = "no-key" THEN DescKeyMissing
    ELSE IF outcome = "content" THEN ContentGiven
    ELSE IF outcome = "empty-content" THEN DescNone
    ELSE IF outcome = "bad-shape" THEN DescUnexpected
    ELSE IF outcome = "status" THEN DescApiStatus
    ELSE IF outcome \in {"no-response", "timeout"} THEN DescNoResponse
    ELSE DescTryLater

\* image.split(','): the number of pieces, and the second piece.
CommaCount(s) == Cardinality({i \in 1..Len(s) : s[i] = ","})
AfterComma(s) == LET i == CHOOSE k \in 1..Len(s) : s[k] = "," IN SubSeq(s, i + 1, Len(s))

\* Lines 275-304: up to the await of the description call.
DescribeValidation(image) ==
    IF image # NUMBER /\ ~Truthy(image) THEN Response("describe", 400, ErrImageDataRequired)
    ELSE IF image = NUMBER THEN Response("describe", 400, ErrImageNotString)
    ELSE IF ~StartsWith(image, DataImageSlash) THEN Response("describe", 400, ErrInvalidImageFormat)
    ELSE IF CommaCount(image) # 1 THEN Response("describe", 400, ErrInvalidBase64)
    ELSE IF Trim(AfterComma(image)) = <<>> THEN Response("describe", 400, ErrEmptyImage)
    ELSE Response("describe", 0, ABSENT)

DescribeBegin(image) ==
    /\ Accept
    /\ UNCHANGED <<generatedVideos, videosFile, imagesDir, uploadedImages, imageGenerations,
                   remote, now, env>>
    /\ IF DescribeValidation(image).code # 0
       THEN /\ resp' = DescribeValidation(image)
            /\ UNCHANGED inflight
       ELSE /\ Admit
            /\ inflight' = inflight \cup {[NoHandler EXCEPT !.op = "describe", !.n = nReq',
                                                             !.image = image]}
            /\ UNCHANGED resp

\* Lines 304-317: after the description call.
DescribeResume(h, outcome) ==
    /\ h \in inflight /\ h.op = "describe"
    /\ inflight' = inflight \ {h}
    /\ UNCHANGED <<generatedVideos, videosFile, imagesDir, uploadedImages, imageGenerations,
                   remote, now, nReq, env>>
    /\ LET description == generateImageDescriptionFromBase64(outcome)
       IN resp' = IF StartsWith(description, ErrorColon)
                  THEN Response("describe", 500, description)
                  ELSE [Response("describe", 200, ABSENT) EXCEPT
                          !.body = [EmptyRecord EXCEPT !.imageDescription = description]]

\* The keys of the JSON body of a GET /video-status/:id response.  The
\* adapter's generation object, spread into the body, has the keys the
\* handler reads from it.
StatusKeys == {"id", "state", "assets", "failure_reason"}
ResponseKeys(r) ==
    IF r.op # "video-status" THEN {}
    ELSE IF r.code # 200 THEN {"error"}
    ELSE IF r.state = "completed"
    THEN StatusKeys \cup {"assets", "state", "id", "imageUrl", "imageDescription"}
    ELSE IF r.state = "failed" THEN {"state", "failure_reason", "id"}
    ELSE StatusKeys \cup {"id", "imageUrl"}
\* The frontend's checkVideoStatus: polling ends on a response that is not ok,
\* or on one whose body has a truthy `completed` and a truthy `videoUrl`.
checkVideoStatusSucceeds(r) ==
    r.op = "video-status" /\ r.code = 200 /\ {"completed", "videoUrl"} \subseteq ResponseKeys(r)

\* The other way polling ends: a response that is not ok clears the loading
\* state and the interval.
checkVideoStatusStops(r) ==
    r.op = "video-status" /\ (r.code # 200 \/ checkVideoStatusSucceeds(r))
\* The page of the frontend: resp is the last response it received.
\* isLoading is set by generateVideo, cleared when the submission is refused
\* and by the first status response that ends the polling; generationId is
\* the id the server answered with.
isLoading ==
    \/ Suspended("generate-video") # {}
    \/ resp.op = "generate-video" /\ resp.code = 200 /\ Truthy(resp.body.id)
    \/ resp.op = "video-status" /\ ~checkVideoStatusStops(resp)
generationId == IF resp.code = 200 THEN resp.body.id ELSE NULL
\* generateVideo of the page: the body carries the prompt (and a model name
\* the server does not read); the form is disabled while isLoading holds.
generateVideo(prompt) ==
    /\ ~isLoading
    /\ inflight = {}
    /\ GenerateVideoBegin(Body(prompt, ABSENT, ABSENT, ABSENT, ABSENT))
\* One tick of the poller's interval: while isLoading holds and the page has
\* a generationId, it asks for the status of its job.  The poller goes on as
\* long as isLoading holds, so its requests are not counted against the
\* request budget.
checkVideoStatus ==
    /\ isLoading
    /\ Truthy(generationId)
    /\ inflight = {}
    /\ inflight' = {[NoHandler EXCEPT !.op = "video-status", !.n = nReq, !.id = generationId]}
    /\ UNCHANGED <<generatedVideos, videosFile, imagesDir, uploadedImages, imageGenerations,
                   remote, resp, now, nReq, env>>

\* What the \E of an action ranges over when a save or a write can occur.
DiskOutcomes(image) == IF Truthy(image) THEN BOOLEAN ELSE {TRUE}

\* One action per endpoint step, its inputs drawn from the pools.
SubmitVideo == \E req \in VideoRequests : GenerateVideoBegin(req)
SubmitShort == \E req \in ShortRequests : GenerateVideoBegin(req)
SubmitClient == \E req \in ClientRequests : GenerateVideoBegin(req)
SubmitVideoDone ==
    \E h \in Suspended("generate-video"), out \in CreateOutcomes, t \in Clock, w \in WriteOutcomes :
       \E d \in DiskOutcomes(h.image) : GenerateVideoResume(h, out, t, d, w)
PollVideo == \E id \in GenIds : VideoStatusBegin(id)
PollVideoDone ==
    \E h \in Suspended("video-status"), t \in Clock, w \in WriteOutcomes :
       \E out \in GetOutcomes(h.id) : VideoStatusResume(h, out, t, w)
SubmitImage ==
    \E req \in ImageRequests, t \in Clock : \E d \in DiskOutcomes(req.image) : GenerateImageBegin(req, t, d)
SubmitImageDone ==
    \E h \in Suspended("generate-image"), out \in CreateOutcomes, t \in Clock : GenerateImageResume(h, out, t)
PollImage == \E id \in GenIds : ImageStatusBegin(id)
PollImageDone ==
    \E h \in Suspended("image-status"), t \in Clock, w \in WriteOutcomes :
       \E out \in GetOutcomes(h.id) : ImageStatusResume(h, out, t, w)
SaveOne == \E req \in SaveRequests, t \in Clock, d \in BOOLEAN, w \in WriteOutcomes : SaveImage(req, t, d, w)
ReadOne == \E id \in GenIds \cup StoreIds : GetVideo(id)

\* The whole server.
Next ==
    \/ SubmitVideo \/ SubmitVideoDone \/ PollVideo \/ PollVideoDone
    \/ SubmitImage \/ SubmitImageDone \/ PollImage \/ PollImageDone
    \/ SaveOne \/ GetVideos \/ ReadOne

Spec == Init /\ [][Next]_vars

\* The video endpoints.
NextVideo == SubmitVideo \/ SubmitVideoDone \/ PollVideo \/ PollVideoDone
SpecVideo == Init /\ [][NextVideo]_vars

\* The video endpoints against a remote service that may reissue an id.
InitReuse == InitCommon /\ env = [reuseIds |-> TRUE, writeFaults |-> FALSE, budget |-> MaxRequests,
                             phase |-> "up",
           attempts |-> <<PORT>>, errors |-> <<>>, listening |-> {PORT},
           restarts |-> 0, before |-> [g \in GenIds |-> NoMeta]]
SpecReuse == InitReuse /\ [][NextVideo]_vars

\* The image endpoints.
NextImage == SubmitImage \/ SubmitImageDone \/ PollImage \/ PollImageDone
InitSubmits == InitCommon /\ env = [reuseIds |-> FALSE, writeFaults |-> FALSE, budget |-> MaxSubmits,
                                    phase |-> "up",
           attempts |-> <<PORT>>, errors |-> <<>>, listening |-> {PORT},
           restarts |-> 0, before |-> [g \in GenIds |-> NoMeta]]
SpecImage == InitSubmits /\ [][NextImage]_vars

\* The two submission endpoints.
NextSubmit == SubmitVideo \/ SubmitVideoDone \/ SubmitImage \/ SubmitImageDone
SpecSubmit == InitSubmits /\ [][NextSubmit]_vars
\* The endpoints that write the backing file, its writes failing at will; one
\* request body for each submission endpoint.
InitFaults == InitCommon /\ env = [reuseIds |-> FALSE, writeFaults |-> TRUE, budget |-> MaxSubmits,
                                   phase |-> "up",
           attempts |-> <<PORT>>, errors |-> <<>>, listening |-> {PORT},
           restarts |-> 0, before |-> [g \in GenIds |-> NoMeta]]
SubmitVideoWithImage ==
    GenerateVideoBegin(Body(PromptLong, ImgValid, ABSENT, ABSENT, ABSENT))
SubmitPlainImage ==
    \E t \in Clock : GenerateImageBegin(Body(PromptLong, ABSENT, ABSENT, ABSENT, ABSENT), t, TRUE)
SaveValid ==
    \E t \in Clock, d \in BOOLEAN, w \in WriteOutcomes :
       SaveImage(Body(ABSENT, ImgValid, TitleGiven, ClientGiven, ABSENT), t, d, w)
NextFaults ==
    \/ SubmitVideoWithImage \/ SubmitVideoDone \/ PollVideo \/ PollVideoDone
    \/ SubmitPlainImage \/ SubmitImageDone \/ PollImage \/ PollImageDone
    \/ SaveValid
SpecFaults == InitFaults /\ [][NextFaults]_vars

\* The same endpoints with a backing file whose writes succeed.
SpecWrites == InitSubmits /\ [][NextFaults]_vars
\* The same endpoints in a server that was started on the backing file an
\* earlier POST /save-image left: one image record, loaded into the list.
StoredId == ImgDash \o DateNowStr(0) \o <<"-">> \o RandStr
StoredImage == saveImageToDisk(ImgValid, StoredId, 0, TRUE)
RecStored ==
    [EmptyRecord EXCEPT !.id = StoredId, !.type = TypeImage, !.url = NULL,
                        !.imageUrl = StoredImage.url, !.title = TitleGiven,
                        !.client = ClientGiven, !.background = DefaultBackground,
                        !.prompt = NoPromptAvailable, !.timestamp = IsoString(0)]
InitStored ==
    /\ generatedVideos = <<RecStored>>
    /\ videosFile = FileOf(generatedVideos)
    /\ imagesDir = {StoredImage.filename}
    /\ uploadedImages = [g \in GenIds |-> NoMeta]
    /\ imageGenerations = [g \in GenIds |-> NoMeta]
    /\ remote = [g \in GenIds |-> NoJob]
    /\ inflight = {}
    /\ resp = NoResponse
    /\ now = 0
    /\ nReq = 0
    /\ env = [reuseIds |-> FALSE, writeFaults |-> FALSE, budget |-> MaxSubmits, phase |-> "up",
           attempts |-> <<PORT>>, errors |-> <<>>, listening |-> {PORT},
           restarts |-> 0, before |-> [g \in GenIds |-> NoMeta]]
SpecStored == InitStored /\ [][NextFaults]_vars

\* Status polls of two video jobs that were submitted without an image (such
\* a submission changes nothing but the remote service).
InitPolls ==
    /\ generatedVideos = <<>>
    /\ videosFile = [kind |-> "absent", recs |-> <<>>]
    /\ imagesDir = {}
    /\ uploadedImages = [g \in GenIds |-> NoMeta]
    /\ imageGenerations = [g \in GenIds |-> NoMeta]
    /\ remote = [g \in GenIds |-> [NoJob EXCEPT !.kind = "video", !.state = "pending"]]
    /\ inflight = {}
    /\ resp = NoResponse
    /\ now = 0
    /\ nReq = 0
    /\ env = [reuseIds |-> FALSE, writeFaults |-> FALSE, budget |-> MaxSubmits, phase |-> "up",
           attempts |-> <<PORT>>, errors |-> <<>>, listening |-> {PORT},
           restarts |-> 0, before |-> [g \in GenIds |-> NoMeta]]
NextPolls == PollVideo \/ PollVideoDone
SpecPolls == InitPolls /\ [][NextPolls]_vars

\* The page of the frontend against the server: the user submits a prompt,
\* a tick of the interval fires while the page is loading, and every request
\* is answered.
PagePrompts == {PromptShort, PromptLong, PromptOneWord, PromptTiny}
PageSubmit == \E prompt \in PagePrompts : generateVideo(prompt)
NextPoller == PageSubmit \/ SubmitVideoDone \/ checkVideoStatus \/ PollVideoDone
SpecPoller ==
    /\ InitSubmits /\ [][NextPoller]_vars
    /\ WF_vars(SubmitVideoDone) /\ WF_vars(checkVideoStatus) /\ WF_vars(PollVideoDone)
\* Startup: every backing file of StartupFiles is loaded and sanitized.
RecClean ==
    [EmptyRecord EXCEPT !.id = GenId1, !.url = VideoAssetUrl(GenId1), !.client = ClientGiven,
                        !.background = BackgroundGiven, !.prompt = PromptLong,
                        !.timestamp = IsoString(0)]
RecLegacy ==
    [EmptyRecord EXCEPT !.client = DemoClient, !.prompt = NoPromptAvailable,
                        !.originalPrompt = PromptLong]
RecImagePrompt ==
    [EmptyRecord EXCEPT !.id = GenId2, !.background = BackgroundGiven, !.client = ClientGiven,
                        !.originalPrompt = PromptImage]
RecNumericPrompt == [EmptyRecord EXCEPT !.id = GenId2, !.originalPrompt = NUMBER]
RecSentinel ==
    [EmptyRecord EXCEPT !.id = GenId2, !.background = BackgroundGiven, !.client = ClientGiven,
                        !.prompt = NoPromptAvailable, !.originalPrompt = NoPromptAvailable]
StartupElements ==
    {RecClean, RecLegacy, RecImagePrompt, RecNumericPrompt, RecSentinel, JsonNull, JsonNumber}
StartupFiles ==
    {[kind |-> k, recs |-> <<>>] : k \in {"absent", "empty", "unparseable", "nonarray"}}
    \cup {[kind |-> "array", recs |-> a] :
            a \in UNION {[1..n -> StartupElements] : n \in 0..MaxFileLen}}
\* Lines 1105-1143: startServer and the chain that calls it.  app.listen is
\* called at the end of the top-level script; its outcome ('listening' or
\* 'error') arrives later.
BindErrors == {EADDRINUSE, EACCES}
BindPending == env.phase = "up" /\ env.listening = {} /\ Len(env.attempts) > Len(env.errors)
StartupFrame ==
    UNCHANGED <<generatedVideos, videosFile, imagesDir, uploadedImages, imageGenerations,
                remote, inflight, resp, now, nReq>>
\* startServer(PORT)
StartServer ==
    /\ env.phase = "up" /\ env.attempts = <<>>
    /\ env' = [env EXCEPT !.attempts = <<PORT>>]
    /\ StartupFrame
\* The listen callback: the promise resolves.
BindSucceeds ==
    /\ BindPending
    /\ env' = [env EXCEPT !.listening = {env.attempts[Len(env.attempts)]}]
    /\ StartupFrame
\* Faulty variant of FallbackWanted: every bind error leads to the fallback.
FallbackWantedAlways(code) == TRUE
\* error.code === 'EADDRINUSE'
FallbackWanted(code) == code = EADDRINUSE
\* The 'error' event of the primary bind: the outer catch.
BindPrimaryFails(code) ==
    /\ BindPending /\ Len(env.attempts) = 1
    /\ env' = IF FallbackWanted(code)
              THEN [env EXCEPT !.errors = <<code>>, !.attempts = <<PORT, FALLBACK_PORT>>]
              ELSE [env EXCEPT !.errors = <<code>>, !.phase = "exited"]
    /\ StartupFrame
\* The 'error' event of the fallback bind: the inner catch.
BindFallbackFails(code) ==
    /\ BindPending /\ Len(env.attempts) = 2
    /\ env' = [env EXCEPT !.errors = Append(env.errors, code), !.phase = "exited"]
    /\ StartupFrame
PrimaryFails == \E code \in BindErrors : BindPrimaryFails(code)
FallbackFails == \E code \in BindErrors : BindFallbackFails(code)

\* The process is stopped and started again: the handlers in flight are
\* gone, the list is loaded from the backing file and sanitized (lines 31-48,
\* 112-154), and global.uploadedImages and imageGenerations start out empty.
Restart(t, writeOk) ==
    /\ env.phase = "up" /\ env.restarts < MaxRestarts
    /\ now' = t
    /\ inflight' = {}
    /\ uploadedImages' = [g \in GenIds |-> NoMeta]
    /\ imageGenerations' = [g \in GenIds |-> NoMeta]
    /\ UNCHANGED <<imagesDir, remote, nReq>>
    /\ LET r == sanitizeVideoRecords(LoadedVideos(videosFile), t)
           kept == [g \in GenIds |-> IF uploadedImages[g].present THEN uploadedImages[g]
                                      ELSE env.before[g]]
       IN /\ generatedVideos' = r.list
          /\ IF r.threw # ABSENT
             THEN /\ env' = [env EXCEPT !.phase = "crashed", !.restarts = @ + 1, !.before = kept]
                  /\ resp' = Response("startup", 1, r.threw)
                  /\ UNCHANGED videosFile
             ELSE /\ env' = [env EXCEPT !.restarts = @ + 1, !.before = kept]
                  /\ videosFile' = IF r.modified THEN saveVideosToFile(r.list, videosFile, writeOk)
                                   ELSE videosFile
                  /\ UNCHANGED resp

InitStartup ==
    /\ generatedVideos = <<>>
    /\ videosFile \in StartupFiles
    /\ imagesDir = {}
    /\ uploadedImages = [g \in GenIds |-> NoMeta]
    /\ imageGenerations = [g \in GenIds |-> NoMeta]
    /\ remote = [g \in GenIds |-> NoJob]
    /\ inflight = {}
    /\ resp = NoResponse
    /\ now = 0
    /\ nReq = 0
    /\ env = [reuseIds |-> FALSE, writeFaults |-> FALSE, budget |-> MaxRequests, phase |-> "boot",
           attempts |-> <<>>, errors |-> <<>>, listening |-> {},
           restarts |-> 0, before |-> [g \in GenIds |-> NoMeta]]
Sanitize == \E t \in Clock, w \in WriteOutcomes : StartupSanitize(t, w)
NextStartup == StartupLoad \/ Sanitize
SpecStartup == InitStartup /\ [][NextStartup]_vars
\* Startup up to the bound port.  The top-level script runs to its end and
\* every bind attempt is answered.
NextBoot ==
    \/ StartupLoad \/ Sanitize \/ StartServer
    \/ BindSucceeds \/ PrimaryFails \/ FallbackFails
SpecBoot == InitStartup /\ [][NextBoot]_vars /\ WF_vars(NextBoot)

\* POST /save-image and the two read endpoints.
NextSave == SaveOne \/ GetVideos \/ ReadOne
SpecSave == Init /\ [][NextSave]_vars
\* POST /generate-video alone.
NextVideoSubmit == SubmitVideo \/ SubmitVideoDone
SpecVideoSubmit == InitSubmits /\ [][NextVideoSubmit]_vars
\* The read endpoints in a server started on a backing file of older records:
\* one without imageUrl, one with inline image data in it, one with the
\* relative URL of a saved file, one with a URL of the remote service.
LegacyId == <<"o","l","d","-","1">>
RecInline == [RecClean EXCEPT !.id = GenId2, !.imageUrl = ImgValid]
RecRemote == [RecClean EXCEPT !.id = LegacyId, !.imageUrl = ImageAssetUrl(LegacyId)]
ReadRecords == {RecClean, RecInline, RecStored, RecRemote}
ReadLists ==
    {list \in UNION {[1..n -> ReadRecords] : n \in 0..MaxFileLen} :
        \A i, j \in 1..Len(list) : i # j => list[i].id # list[j].id}
InitRead ==
    /\ generatedVideos \in ReadLists
    /\ videosFile = FileOf(generatedVideos)
    /\ imagesDir = {StoredImage.filename}
    /\ uploadedImages = [g \in GenIds |-> NoMeta]
    /\ imageGenerations = [g \in GenIds |-> NoMeta]
    /\ remote = [g \in GenIds |-> NoJob]
    /\ inflight = {}
    /\ resp = NoResponse
    /\ now = 0
    /\ nReq = 0
    /\ env = [reuseIds |-> FALSE, writeFaults |-> FALSE, budget |-> MaxSubmits, phase |-> "up",
           attempts |-> <<PORT>>, errors |-> <<>>, listening |-> {PORT},
           restarts |-> 0, before |-> [g \in GenIds |-> NoMeta]]
NextRead == GetVideos \/ ReadOne
SpecRead == InitRead /\ [][NextRead]_vars
\* POST /upload-and-generate-description.
DescribeImages == {ABSENT, NUMBER, ImgNotData, ImgTwoCommas, ImgEmptyPayload, ImgValid}
SubmitDescribe == \E image \in DescribeImages : DescribeBegin(image)
DescribeDone ==
    \E h \in Suspended("describe"), outcome \in DescribeOutcomes : DescribeResume(h, outcome)
NextDescribe == SubmitDescribe \/ DescribeDone
SpecDescribe == Init /\ [][NextDescribe]_vars
\* The endpoints that create records without a video: submission with an
\* image and save-image, with the status polls of the submitted jobs.
NextUrl == SubmitVideoWithImage \/ SubmitVideoDone \/ PollVideo \/ PollVideoDone \/ SaveValid
SpecUrl == InitSubmits /\ [][NextUrl]_vars
\* sanitizePrompt on its own: the prompt is any text made of up to MaxPieces
\* of the pieces below, and the one step applies the function to it.
PromptPieces ==
    { <<"g","u">>, <<"n">>, <<"g","u","n">>, <<"K","i","l","l">>, <<"i","n","g">>,
      <<" ">>, <<"a"," ","f","o","x">> }
RECURSIVE Concat(_)
Concat(ws) == IF ws = <<>> THEN <<>> ELSE Head(ws) \o Concat(Tail(ws))
SanitizeInputs == {Concat(ws) : ws \in UNION {[1..n -> PromptPieces] : n \in 1..MaxPieces}}
InitSanitize ==
    /\ generatedVideos = <<>>
    /\ videosFile = [kind |-> "absent", recs |-> <<>>]
    /\ imagesDir = {}
    /\ uploadedImages = [g \in GenIds |-> NoMeta]
    /\ imageGenerations = [g \in GenIds |-> NoMeta]
    /\ remote = [g \in GenIds |-> NoJob]
    /\ inflight = {}
    /\ \E prompt \in SanitizeInputs :
          resp = [Response("prompt", 0, ABSENT) EXCEPT !.body.originalPrompt = prompt]
    /\ now = 0
    /\ nReq = 0
    /\ env = [reuseIds |-> FALSE, writeFaults |-> FALSE, budget |-> 1, phase |-> "up",
              attempts |-> <<PORT>>, errors |-> <<>>, listening |-> {PORT},
              restarts |-> 0, before |-> [g \in GenIds |-> NoMeta]]
ApplySanitize ==
    /\ resp.op = "prompt"
    /\ Accept
    /\ resp' = [resp EXCEPT !.op = "sanitizePrompt",
                            !.body.prompt = sanitizePrompt(resp.body.originalPrompt)]
    /\ UNCHANGED <<generatedVideos, videosFile, imagesDir, uploadedImages, imageGenerations,
                   remote, inflight, now, env>>
SpecSanitize == InitSanitize /\ [][ApplySanitize]_vars
\* Submission with an image, restart, status poll.
SubmitDescribed ==
    GenerateVideoBegin(Body(PromptLong, ImgValid, TitleGiven, ClientGiven, BackgroundGiven))
RestartOnce == \E t \in Clock, w \in WriteOutcomes : Restart(t, w)
NextRestart ==
    \/ SubmitVideoWithImage \/ SubmitDescribed \/ SubmitVideoDone
    \/ RestartOnce \/ PollVideo \/ PollVideoDone
SpecRestart == InitSubmits /\ [][NextRestart]_vars
\* POST /generate-video with short prompts only.
NextEnhance == SubmitShort \/ SubmitVideoDone
SpecEnhance == InitSubmits /\ [][NextEnhance]_vars
\* Submissions that differ in the client name.
NextClient == SubmitClient \/ SubmitVideoDone
SpecClient == InitSubmits /\ [][NextClient]_vars
\* The image endpoints, every adapter call of generate-image being answered.
SpecImageLive == SpecImage /\ WF_vars(SubmitImageDone)

\* --------------------------------------------------------------- properties
\* The inline-image-data pattern: an image data URI with a base64 payload.
InlineImageData(v) == IsStr(v) /\ StartsWith(v, DataImageSlash) /\ Includes(v, Base64Comma)
\* An error message of the moderation style.
ModerationStyle(msg) == IsStr(msg) /\ \E w \in ModerationWords : Includes(msg, w)
\* The step in which the suspended handler h sends its response.
Retires(h) == h \in inflight /\ inflight' = inflight \ {h}
\* The record of the backing file with a given id (EmptyRecord when there is none).
FileRecord(file, id) == IF FindIndex(file.recs, id) = 0 THEN EmptyRecord
                        ELSE file.recs[FindIndex(file.recs, id)]
MemRecord(list, id) == IF FindIndex(list, id) = 0 THEN EmptyRecord ELSE list[FindIndex(list, id)]

\* C1: a POST /generate-video or POST /generate-image whose prompt is absent or
\* empty is answered 400 'Prompt is required', suspends no handler at an
\* adapter call, and leaves the record list and the backing file as they were.
Refused(op) ==
    /\ resp' = Response(op, 400, ErrPromptRequired)
    /\ inflight' = inflight
    /\ generatedVideos' = generatedVideos
    /\ videosFile' = videosFile
C1_MissingPromptRefused ==
    [][/\ \A req \in VideoRequests :
             ~Truthy(req.prompt) /\ GenerateVideoBegin(req) => Refused("generate-video")
       /\ \A req \in ImageRequests, t \in 0..MaxTime, d \in BOOLEAN :
             ~Truthy(req.prompt) /\ GenerateImageBegin(req, t, d) => Refused("generate-image")]_vars
C1_Witness ==
    /\ resp = Response("generate-image", 400, ErrPromptRequired)
    /\ generatedVideos # <<>>
    /\ videosFile.recs # <<>>
\* The step in which the video-status poll h answers `completed` and writes
\* the record of its id (the job carries its video asset).
PollFinalizes(h) ==
    /\ h.op = "video-status" /\ Retires(h)
    /\ resp'.op = "video-status" /\ resp'.code = 200
    /\ resp'.state = "completed" /\ Truthy(resp'.body.url)

\* C2: a GET /video-status/:id that sees the job completed with its video,
\* when the backing file already holds the finalized record of that id,
\* leaves that persisted record equal in every field (timestamp included) and
\* the record list at the same length.
C2_RepeatedPollIdempotent ==
    [][\A h \in inflight :
          PollFinalizes(h) /\ Truthy(FileRecord(videosFile, h.id).url)
          => /\ FileRecord(videosFile', h.id) = FileRecord(videosFile, h.id)
             /\ Len(generatedVideos') = Len(generatedVideos)]_vars

\* C3: no two records of the in-memory list have the same id.
C3_UniqueIds ==
    \A i, j \in 1..Len(generatedVideos) :
       i # j => generatedVideos[i].id # generatedVideos[j].id

\* C4: a record that holds an imageUrl keeps one through every later step,
\* in the list and in the backing file: a known imageUrl never reverts to null.
C4_ImageUrlNeverReverts ==
    [][\A i \in 1..Len(generatedVideos) :
          Truthy(generatedVideos[i].imageUrl)
          => /\ Truthy(MemRecord(generatedVideos', generatedVideos[i].id).imageUrl)
             /\ Truthy(FileRecord(videosFile', generatedVideos[i].id).imageUrl)]_vars

\* C5: after a video-status poll has seen `completed` and written the record
\* of its id, neither the imageUrl nor the prompt of that stored record is an
\* inline image data URI.
C5_FinalizedRecordClean ==
    [][\A h \in inflight :
          PollFinalizes(h)
          => /\ ~InlineImageData(MemRecord(generatedVideos', h.id).imageUrl)
             /\ ~InlineImageData(MemRecord(generatedVideos', h.id).prompt)
             /\ ~InlineImageData(FileRecord(videosFile', h.id).imageUrl)
             /\ ~InlineImageData(FileRecord(videosFile', h.id).prompt)]_vars
C5_Witness ==
    /\ resp.op = "video-status" /\ resp.state = "completed" /\ Truthy(resp.body.url)
    /\ InlineImageData(uploadedImages[resp.body.id].prompt)
    /\ MemRecord(generatedVideos, resp.body.id).prompt = ImageBasedPrompt
    /\ Truthy(MemRecord(generatedVideos, resp.body.id).imageUrl)

\* C6: no record of the store holds inline image data in its prompt or its
\* originalPrompt.
C6_NoImageDataInPrompts ==
    \A i \in 1..Len(generatedVideos) :
       /\ ~InlineImageData(generatedVideos[i].prompt)
       /\ ~InlineImageData(generatedVideos[i].originalPrompt)

\* C7: no response of GET /videos, GET /videos/:id, POST /generate-video or
\* GET /video-status/:id carries an image data URI in an imageUrl, prompt or
\* originalPrompt field.
C7_ResponsesClean ==
    resp.op \in {"videos", "video", "generate-video", "video-status"}
    => \A f \in {"imageUrl", "prompt", "originalPrompt"} :
          /\ ~InlineImageData(resp.body[f])
          /\ \A i \in 1..Len(resp.list) : ~InlineImageData(resp.list[i][f])

\* C8: a video-status poll that sees the job pending, processing or failed
\* leaves the record list and the backing file as they were, and for a failed
\* job answers with the job's failure reason ('Unknown failure reason' when
\* the remote service gives none).
C8_UnfinishedPollLeavesStore ==
    [][\A h \in Suspended("video-status") :
          Retires(h) /\ resp'.code = 200 /\ resp'.state \in {"pending", "processing", "failed"}
          => /\ generatedVideos' = generatedVideos
             /\ videosFile' = videosFile
             /\ resp'.state = remote'[h.id].state
             /\ resp'.state = "failed"
                => resp'.error = IF Truthy(remote'[h.id].reason) THEN remote'[h.id].reason
                                 ELSE UnknownFailure]_vars
C8_Witness ==
    /\ resp.op = "video-status" /\ resp.state = "failed" /\ resp.error = FailureReason
    /\ generatedVideos # <<>>
    /\ videosFile.recs # <<>>
\* C9: a POST /generate-image request calls the image adapter at most 3
\* times; each answer of the adapter either ends the request with a response
\* or, after a moderation-style rejection only, is followed by one more call;
\* and every request is answered in the end.
C9_BoundedRetries ==
    /\ [](\A h \in Suspended("generate-image") : h.attempts \in 1..3)
    /\ [][\A h \in Suspended("generate-image") :
             h \notin inflight'
             => \/ /\ \A h2 \in inflight' : h2.n # h.n
                   /\ resp'.op = "generate-image"
                   /\ resp'.code \in {200, 400, 500}
                   /\ resp'.attempts = h.attempts
                \/ \E h2 \in inflight' \ inflight :
                      /\ h2.n = h.n
                      /\ h2.attempts = h.attempts + 1
                      /\ ModerationStyle(h2.modErr)]_vars
    /\ <>[](Suspended("generate-image") = {})
C9_Witness ==
    /\ resp.op = "generate-image" /\ resp.code = 400
    /\ resp.error = ErrModerationRejected
    /\ resp.attempts = 3

\* C10: when the adapter answers an attempt of POST /generate-image (the
\* first, second or third) with an error that is not of the moderation style,
\* no further adapter call is made and the request is answered 500 with that
\* error's message.
C10_OtherErrorsAbort ==
    [][\A h \in Suspended("generate-image"), m \in AdapterErrors, t \in 0..MaxTime :
          ~ModerationStyle(m) /\ GenerateImageResume(h, [ok |-> FALSE, id |-> ABSENT, msg |-> m], t)
          => /\ inflight' = inflight \ {h}
             /\ resp'.op = "generate-image"
             /\ resp'.code = 500
             /\ resp'.error = m]_vars
C10_Witness ==
    /\ resp.op = "generate-image" /\ resp.code = 500
    /\ resp.error = MsgTimeout
    /\ resp.attempts = 3
\* C11: in POST /generate-image the prompt sent on attempt 1 is the request
\* prompt, on attempt 2 the sanitized request prompt and on attempt 3 the
\* fixed fallback prompt, an image reference weight of 0.85 being lowered to
\* 0.5 for attempt 3; a success response reports the number of the attempt
\* that succeeded and the prompt that attempt sent, so attempts = 3 comes with
\* the fallback prompt.
AttemptPrompt(prompt, attempts) ==
    IF attempts = 1 THEN prompt
    ELSE IF attempts = 2 THEN Memo(SanitizedTable, sanitizePrompt, prompt)
    ELSE BeautifulArtwork
C11_AttemptPrompts ==
    /\ \A h \in Suspended("generate-image") :
          /\ h.sent = AttemptPrompt(h.prompt, h.attempts)
          /\ h.attempts < 3 => h.weight \in {0, 85}
          /\ h.attempts = 3 => h.weight \in {0, 50}
    /\ resp.op = "generate-image" /\ resp.code = 200
       => /\ resp.attempts \in 1..3
          /\ resp.body.prompt = AttemptPrompt(resp.body.originalPrompt, resp.attempts)
          /\ imageGenerations[resp.body.id].attempts = resp.attempts
          /\ imageGenerations[resp.body.id].actualPrompt = resp.body.prompt
C11_Witness ==
    /\ resp.op = "generate-image" /\ resp.code = 200
    /\ resp.attempts = 3
    /\ resp.body.originalPrompt = PromptBlocked
    /\ resp.body.prompt = BeautifulArtwork
    /\ sanitizePrompt(PromptBlocked) \notin {PromptBlocked, BeautifulArtwork}
\* C12: when the third attempt of a POST /generate-image request is rejected
\* for moderation like the two before it, the request is answered 400 with
\* the moderation-rejected error and a suggestion, and neither the record
\* store nor the pending image-generation metadata gains an entry.
C12_AllRejected ==
    [][\A h \in Suspended("generate-image"), m \in AdapterErrors, t \in 0..MaxTime :
          /\ h.attempts = 3 /\ ModerationStyle(m)
          /\ GenerateImageResume(h, [ok |-> FALSE, id |-> ABSENT, msg |-> m], t)
          => /\ inflight' = inflight \ {h}
             /\ resp'.op = "generate-image"
             /\ resp'.code = 400
             /\ resp'.error = ErrModerationRejected
             /\ Truthy(resp'.suggestion)
             /\ generatedVideos' = generatedVideos
             /\ videosFile' = videosFile
             /\ imageGenerations' = imageGenerations]_vars
C12_Witness ==
    /\ resp.op = "generate-image" /\ resp.code = 400
    /\ resp.error = ErrModerationRejected
    /\ resp.suggestion = SuggestModeration
    /\ resp.attempts = 3
    /\ resp.body.prompt = MsgModeration
    /\ \A g \in GenIds : ~imageGenerations[g].present
    /\ generatedVideos = <<>>
C14_CreateFailureLeavesState ==
    [][\A h \in Suspended("generate-video"), m \in AdapterErrors, t \in 0..MaxTime, d, w \in BOOLEAN :
          GenerateVideoResume(h, [ok |-> FALSE, id |-> ABSENT, msg |-> m], t, d, w)
          => /\ inflight' = inflight \ {h}
             /\ resp'.op = "generate-video"
             /\ resp'.code = 500
             /\ resp'.error = m
             /\ generatedVideos' = generatedVideos
             /\ videosFile' = videosFile
             /\ imagesDir' = imagesDir
             /\ uploadedImages' = uploadedImages]_vars
C14_Witness ==
    /\ resp.op = "generate-video" /\ resp.code = 500
    /\ resp.error = MsgTimeout
    /\ generatedVideos # <<>>
    /\ imagesDir # {}
    /\ \E g \in GenIds : uploadedImages[g].present
\* C15: when the adapter's create call succeeds for a POST /generate-video
\* request that supplied an image and saving the image to disk fails (the
\* payload does not decode or the write throws), the request is still answered
\* 200 with the generation id and a null imageUrl, and the in-memory list and
\* the backing file hold a preliminary record of that id with imageUrl null
\* and url null.
C15_ImageSaveFailureTolerated ==
    [][\A h \in Suspended("generate-video"), g \in GenIds, t \in 0..MaxTime, d \in BOOLEAN :
          /\ Truthy(h.image)
          /\ ~saveImageToDisk(h.image, g, t, d).saved
          /\ GenerateVideoResume(h, [ok |-> TRUE, id |-> g, msg |-> ABSENT], t, d, TRUE)
          => /\ resp'.op = "generate-video" /\ resp'.code = 200
             /\ resp'.body.id = g
             /\ resp'.body.imageUrl = NULL
             /\ MemRecord(generatedVideos', g).id = g
             /\ MemRecord(generatedVideos', g).imageUrl = NULL
             /\ MemRecord(generatedVideos', g).url = NULL
             /\ FileRecord(videosFile', g).id = g
             /\ FileRecord(videosFile', g).imageUrl = NULL
             /\ imagesDir' = imagesDir]_vars
C15_Witness ==
    /\ resp.op = "generate-video" /\ resp.code = 200
    /\ resp.body.imageUrl = NULL
    /\ MemRecord(generatedVideos, resp.body.id).id = resp.body.id
    /\ MemRecord(generatedVideos, resp.body.id).imageUrl = NULL
    /\ MemRecord(generatedVideos, resp.body.id).originalPrompt = PromptLong
    /\ uploadedImages[resp.body.id].present
    /\ imagesDir = {}
\* C16: when a POST /generate-video request is answered with success, with or
\* without an image, the record store holds from that step on, before any
\* status poll, a preliminary record whose id is the returned generation id
\* and whose url is null.
C16_SuccessLeavesPrelimRecord ==
    [][\A h \in Suspended("generate-video") :
          /\ Retires(h)
          /\ resp'.op = "generate-video" /\ resp'.code = 200
          => /\ MemRecord(generatedVideos', resp'.body.id).id = resp'.body.id
             /\ MemRecord(generatedVideos', resp'.body.id).url = NULL]_vars
\* C17: a POST /generate-video request with a prompt whose image option is
\* present but is not a payload the disk image store can decode (a data URI
\* with an embedded MIME type and base64-encoded bytes) is answered 400 with
\* the invalid-image error, without an adapter call and without a change to
\* the record store.
C17_UndecodableImageRefused ==
    [][\A req \in VideoRequests :
          /\ Truthy(req.prompt) /\ Truthy(req.image)
          /\ ~DataUriMatches(req.image)
          /\ GenerateVideoBegin(req)
          => /\ resp' = Response("generate-video", 400, ErrValidImageRequired)
             /\ inflight' = inflight
             /\ generatedVideos' = generatedVideos
             /\ videosFile' = videosFile]_vars
\* An id of the form img-<timestamp>-<random>: decimal digits, then base-36
\* characters, neither part empty.
ImgIdForm(id) ==
    /\ StartsWith(id, ImgDash)
    /\ \E i \in 6..(Len(id) - 1) :
          /\ id[i] = "-"
          /\ \A j \in 5..(i - 1) : \E k \in 1..10 : Digits[k] = id[j]
          /\ \A j \in (i + 1)..Len(id) :
                \/ \E k \in 1..10 : Digits[k] = id[j]
                \/ \E k \in 1..26 : LowerLetters[k] = id[j]
\* What a POST /save-image with a data:image/ payload does, the imageUrl of
\* the success response aside: on a decodable payload and a working disk it
\* answers 200 with an id of the img- form and appends one record of that id,
\* type image, url null and the relative URL of the file written; when the
\* save fails it answers with an error and leaves the list and the file.
SaveImageEffect(req, t, d) ==
    IF DataUriMatches(req.image) /\ d
    THEN /\ resp'.op = "save-image" /\ resp'.code = 200
         /\ ImgIdForm(resp'.body.id)
         /\ Len(generatedVideos') = Len(generatedVideos) + 1
         /\ SubSeq(generatedVideos', 1, Len(generatedVideos)) = generatedVideos
         /\ LET rec == generatedVideos'[Len(generatedVideos')]
            IN /\ rec.id = resp'.body.id
               /\ rec.type = TypeImage
               /\ rec.url = NULL
               /\ StartsWith(rec.imageUrl, SavedImagesPrefix)
               /\ \E f \in imagesDir' \ imagesDir : rec.imageUrl = SavedImagesPrefix \o f
    ELSE /\ resp'.op = "save-image" /\ resp'.code = 500
         /\ Truthy(resp'.error)
         /\ generatedVideos' = generatedVideos
         /\ videosFile' = videosFile
         /\ imagesDir' = imagesDir
\* C18 as stated: every POST /save-image with a data-URI image answers
\* success with an id of the form img-<timestamp>-<random> and an imageUrl
\* that begins with the static prefix /saved_images, and appends one record
\* with that id, type image, url null and the saved image's relative URL; a
\* failed disk save gives an error and leaves the record store unchanged.
C18_SaveImageAsStated ==
    [][\A req \in SaveRequests, t \in 0..MaxTime, d, w \in BOOLEAN :
          /\ Truthy(req.image) /\ StartsWith(req.image, DataImageSlash)
          /\ SaveImage(req, t, d, w)
          => /\ SaveImageEffect(req, t, d)
             /\ resp'.code = 200 => StartsWith(resp'.body.imageUrl, SavedImagesPrefix)]_vars
\* C18 as amended: the same, except that the imageUrl of the success response
\* is the server's origin http://localhost:<port> followed by the record's
\* relative URL, which begins with the static prefix.
C18_SaveImageAmended ==
    [][\A req \in SaveRequests, t \in 0..MaxTime, d, w \in BOOLEAN :
          /\ Truthy(req.image) /\ StartsWith(req.image, DataImageSlash)
          /\ SaveImage(req, t, d, w)
          => /\ SaveImageEffect(req, t, d)
             /\ resp'.code = 200
                => resp'.body.imageUrl =
                      LocalhostPrefix \o PortStr \o generatedVideos'[Len(generatedVideos')].imageUrl]_vars
C18_Witness ==
    /\ resp.op = "save-image" /\ resp.code = 200
    /\ Len(generatedVideos) = 2
    /\ generatedVideos[2].id = resp.body.id
    /\ generatedVideos[2].type = TypeImage
    /\ StartsWith(resp.body.imageUrl, LocalhostPrefix)
    /\ Cardinality(imagesDir) = 2
\* C19: whatever the backing file holds at startup (nothing, an empty file,
\* text that does not parse, JSON that is not an array, or an array of any
\* elements), loading and the sanitization pass end without an exception,
\* and the list is empty when the content is not a JSON array.
C19_StartupTolerant ==
    /\ env.phase # "crashed"
    /\ env.phase \in {"loaded", "up"} /\ videosFile.kind # "array" => generatedVideos = <<>>
\* After a step whose write of the backing file failed: the list holds the
\* record of `id`, the file is as it was, and the file no longer holds the
\* list unless the step left the list as it was.
KeptInMemoryOnly(id) ==
    /\ MemRecord(generatedVideos', id).id = id
    /\ videosFile' = videosFile
    /\ generatedVideos' # generatedVideos => FileOf(generatedVideos') # videosFile'
\* C20: when the write of the backing file fails in generate-video,
\* video-status, save-image or image-status, nothing is thrown, the handler
\* gives its normal success response, the change of the in-memory list is
\* kept and the file stays as it was, so that list and file differ.
C20_WriteFailureTolerated ==
    [][/\ \A h \in Suspended("generate-video"), g \in GenIds, t \in 0..MaxTime, d \in BOOLEAN :
             /\ Truthy(h.image)
             /\ GenerateVideoResume(h, [ok |-> TRUE, id |-> g, msg |-> ABSENT], t, d, FALSE)
             => /\ resp'.op = "generate-video" /\ resp'.code = 200 /\ resp'.body.id = g
                /\ KeptInMemoryOnly(g)
       /\ \A h \in Suspended("video-status"), t \in 0..MaxTime :
             \A out \in GetOutcomes(h.id) :
                /\ out.ok /\ Truthy(AssetVideo(out.job, h.id))
                /\ VideoStatusResume(h, out, t, FALSE)
                => /\ resp'.op = "video-status" /\ resp'.code = 200
                   /\ resp'.state = "completed" /\ resp'.body.url = VideoAssetUrl(h.id)
                   /\ KeptInMemoryOnly(h.id)
       /\ \A req \in SaveRequests, t \in 0..MaxTime :
             /\ Truthy(req.image) /\ StartsWith(req.image, DataImageSlash)
             /\ DataUriMatches(req.image)
             /\ SaveImage(req, t, TRUE, FALSE)
             => /\ resp'.op = "save-image" /\ resp'.code = 200
                /\ KeptInMemoryOnly(resp'.body.id)
       /\ \A h \in Suspended("image-status"), t \in 0..MaxTime :
             \A out \in GetOutcomes(h.id) :
                /\ out.ok /\ Truthy(AssetImage(out.job, h.id))
                /\ ImageStatusResume(h, out, t, FALSE)
                => /\ resp'.op = "image-status" /\ resp'.code = 200
                   /\ resp'.state = "completed" /\ resp'.body.url = ImageAssetUrl(h.id)
                   /\ KeptInMemoryOnly(h.id)]_vars
C20_Witness ==
    /\ resp.op = "video-status" /\ resp.code = 200 /\ resp.state = "completed"
    /\ MemRecord(generatedVideos, resp.body.id).url = VideoAssetUrl(resp.body.id)
    /\ FileRecord(videosFile, resp.body.id).id = resp.body.id
    /\ FileRecord(videosFile, resp.body.id).url = NULL
\* C21: every change of the in-memory list is persisted in the same step:
\* while no write fails, each step that changes the list leaves the backing
\* file holding the list's records in order (as JSON serialises them), so the
\* file mirrors the list in every state once the list has been written.
C21_FileMirrorsList ==
    /\ []((generatedVideos = <<>> /\ videosFile.kind = "absent")
          \/ videosFile = FileOf(generatedVideos))
    /\ [][generatedVideos' # generatedVideos => videosFile' = FileOf(generatedVideos')]_vars
C21_Witness ==
    /\ Len(generatedVideos) = 1
    /\ Truthy(generatedVideos[1].url) /\ Truthy(generatedVideos[1].imageUrl)
    /\ videosFile = FileOf(generatedVideos)
    /\ resp.op = "video-status"
\* C22: after the startup sanitization pass every loaded record has a
\* non-empty background and id, a client other than "Demo Client", and no
\* missing or "No prompt available" prompt beside an originalPrompt that is
\* present and not image data; the pass reports a modification (and so
\* rewrites the file) only if it changed some record, and a second run on
\* its result modifies nothing.
OnlyRecords(list) == \A i \in 1..Len(list) : IsObject(list[i])
C22_SanitizedRecords ==
    /\ env.phase = "up"
       => \A i \in 1..Len(generatedVideos) :
             LET video == generatedVideos[i]
             IN IsObject(video)
                => /\ Truthy(video.background)
                   /\ Truthy(video.id)
                   /\ video.client # DemoClient
                   /\ ~(/\ PromptMissing(video)
                        /\ IsStr(video.originalPrompt)
                        /\ ~StartsWith(video.originalPrompt, DataImageSlash))
    /\ env.phase = "loaded" /\ OnlyRecords(generatedVideos)
       => \A t \in 0..MaxTime :
             LET r == sanitizeVideoRecords(generatedVideos, t)
             IN r.threw = ABSENT /\ r.modified => r.list # generatedVideos
    /\ env.phase = "up" /\ OnlyRecords(generatedVideos)
       => ~sanitizeVideoRecords(generatedVideos, now).modified
\* C23: in POST /generate-video a client name that is absent, blank or the
\* placeholder "AI Creation" in any letter case is replaced by the first one
\* or two whitespace-separated words of the prompt that are longer than 3
\* characters, upper-cased and followed by " STUDIOS", or by "AI ABSTRACTIONS"
\* when the prompt has no such word or is image data; any other client name
\* is kept.  The prompt is the one the handler submits to the adapter.
StudioMistyForest == <<"M","I","S","T","Y"," ","F","O","R","E","S","T"," ","S","T","U","D","I","O","S">>
StudioSunsets == <<"S","U","N","S","E","T","S"," ","S","T","U","D","I","O","S">>
ClientToDerive(c) ==
    \/ ~IsStr(c)
    \/ \A i \in 1..Len(c) : c[i] = " "
    \/ Len(c) = Len(PlaceholderClient)
       /\ \A i \in 1..Len(c) : LowerChar(c[i]) = LowerChar(PlaceholderClient[i])
LongWords(prompt) == FilterLonger(SplitWs(prompt), 3)
C23_DerivedClient ==
    [][\A req \in ClientRequests :
          GenerateVideoBegin(req) /\ inflight' # inflight
          => \E h \in inflight' \ inflight :
                LET words == LongWords(h.prompt)
                IN /\ ~ClientToDerive(req.client) => h.client = req.client
                   /\ ClientToDerive(req.client) /\ InlineImageData(h.prompt)
                      => h.client = DefaultClient
                   /\ ClientToDerive(req.client) /\ ~InlineImageData(h.prompt)
                      => /\ Len(words) = 0 => h.client = DefaultClient
                         /\ Len(words) = 1
                            => h.client = ToUpperCase(words[1]) \o StudiosSuffix
                         /\ Len(words) >= 2
                            => h.client = ToUpperCase(words[1] \o <<" ">> \o words[2])
                                          \o StudiosSuffix]_vars
C23_Witness ==
    /\ Len(generatedVideos) = 2
    /\ generatedVideos[1].client = StudioMistyForest
    /\ generatedVideos[1].originalPrompt = PromptLong
    /\ generatedVideos[2].client = StudioSunsets
    /\ generatedVideos[2].originalPrompt = PromptOneWord
\* C24 (as stated): two concurrent GET /video-status polls of two different
\* completed generation ids can end, both handlers finished and no write
\* failed, with a backing file that lacks one of the two finalized records.
\* The formula is that outcome: once both polls have finalized, one of the
\* two records is missing from the file.
PollSawVideo(g) ==
    remote[g].kind = "video" /\ remote[g].state = "completed" /\ remote[g].assets = "media"
Finalized(rec, g) == rec.id = g /\ rec.url = VideoAssetUrl(g)
C24_LostUpdate ==
    inflight = {} /\ (\A g \in GenIds : PollSawVideo(g))
    => \E g \in GenIds : ~Finalized(FileRecord(videosFile, g), g)
\* C24 (amended): the finalizing step of a poll updates the list and writes
\* the whole list in one uninterrupted step (lines 573-606 have no await), so
\* in every interleaving of the two polls, as soon as a poll has seen a job
\* completed with its video the backing file holds that job's finalized
\* record, and it keeps the record of the other job: no update is lost.
C24_NoLostUpdate ==
    /\ \A g \in GenIds :
          PollSawVideo(g) => /\ Finalized(FileRecord(videosFile, g), g)
                             /\ Finalized(MemRecord(generatedVideos, g), g)
    /\ inflight = {} /\ (\A g \in GenIds : PollSawVideo(g))
       => Len(videosFile.recs) = Cardinality(GenIds)
\* The poll of gen-001 began first and is still suspended at its adapter call
\* when the poll of gen-002, begun after it, has finalized and persisted its
\* record.
C24_Witness ==
    /\ \E h \in Suspended("video-status") : h.id = GenId1 /\ h.n = 1
    /\ nReq = 2
    /\ PollSawVideo(GenId2)
    /\ Finalized(FileRecord(videosFile, GenId2), GenId2)
    /\ resp.op = "video-status" /\ resp.state = "completed"
\* C25: no operation removes a record: in every step the in-memory list is at
\* least as long as before, and every id in the list stays in the list.
C25_ListNeverShrinks ==
    [][/\ Len(generatedVideos') >= Len(generatedVideos)
       /\ StoreIds \subseteq {generatedVideos'[i].id : i \in 1..Len(generatedVideos')}]_vars
\* Two records: the one the server started with, and one written by a
\* submission and then finalized in place by a status poll.
C25_Witness ==
    /\ Len(generatedVideos) = 2
    /\ generatedVideos[1] = RecStored
    /\ Truthy(generatedVideos[2].url) /\ Truthy(generatedVideos[2].originalPrompt)
    /\ resp.op = "video-status" /\ resp.state = "completed"
\* C26: GET /videos and GET /videos/:id leave the in-memory list and the
\* backing file as they were; in every record they return imageUrl is null
\* (or not there) or an absolute URL; a stored relative imageUrl comes back
\* absolute, and a stored imageUrl holding inline image data comes back null.
AbsoluteForm(u) ==
    IsStr(u) /\ (StartsWith(u, <<"h","t","t","p",":","/","/">>)
                 \/ StartsWith(u, <<"h","t","t","p","s",":","/","/">>))
ReturnedFor(stored, returned) ==
    /\ returned.imageUrl \in {NULL, ABSENT} \/ AbsoluteForm(returned.imageUrl)
    /\ IsStr(stored.imageUrl) /\ StartsWith(stored.imageUrl, <<"/">>)
       => returned.imageUrl = LocalhostPrefix \o PortStr \o stored.imageUrl
    /\ InlineImageData(stored.imageUrl) => returned.imageUrl = NULL
    /\ \A f \in DOMAIN stored \ {"imageUrl"} : returned[f] = stored[f]
C26_ReadsLeaveStore ==
    /\ [][GetVideos \/ ReadOne
           => generatedVideos' = generatedVideos /\ videosFile' = videosFile]_vars
    /\ [](resp.op = "videos" /\ resp.code = 200
          => /\ Len(resp.list) = Len(generatedVideos)
             /\ \A i \in 1..Len(resp.list) : ReturnedFor(generatedVideos[i], resp.list[i]))
    /\ [](resp.op = "video" /\ resp.code = 200
          => ReturnedFor(MemRecord(generatedVideos, resp.body.id), resp.body))
C26_Witness ==
    /\ resp.op = "videos" /\ resp.code = 200 /\ Len(resp.list) = 2
    /\ generatedVideos[1].imageUrl = ImgValid /\ resp.list[1].imageUrl = NULL
    /\ generatedVideos[2].imageUrl = StoredImage.url
    /\ resp.list[2].imageUrl = LocalhostPrefix \o PortStr \o StoredImage.url
\* C27: start-up makes at most two bind attempts, the primary port and then
\* the fallback port; the fallback is attempted only after the primary bind
\* failed with EADDRINUSE; any other primary bind error and any fallback bind
\* error exits the process; and start-up always ends listening on exactly
\* one of the two ports or with the process exited.
Exited == env.phase \in {"exited", "crashed"}
C27_BindAttempts ==
    /\ [](env.attempts \in {<<>>, <<PORT>>, <<PORT, FALLBACK_PORT>>})
    /\ [](Len(env.attempts) = 2 => Len(env.errors) >= 1 /\ env.errors[1] = EADDRINUSE)
    /\ []((Len(env.errors) >= 1 /\ env.errors[1] # EADDRINUSE) \/ Len(env.errors) = 2
          => env.phase = "exited")
    /\ [](/\ env.listening \in {{}, {PORT}, {FALLBACK_PORT}}
          /\ Exited => env.listening = {})
    /\ [][env.listening # {} \/ Exited => env' = env]_vars
    /\ <>(Cardinality(env.listening) = 1 \/ Exited)
C27_Witness ==
    /\ env.attempts = <<PORT, FALLBACK_PORT>>
    /\ env.errors = <<EADDRINUSE>>
    /\ env.listening = {FALLBACK_PORT}
    /\ env.phase = "up"
\* C28: once the remote job of a submitted video is completed with a video
\* asset, the response of GET /video-status/:id carries a completed flag and
\* a videoUrl, so that the frontend poller, which ends only on a response
\* with both, sets the video URL and stops polling.
C28_CompletedStopsPoller ==
    resp.op = "video-status" /\ resp.code = 200 /\ resp.state = "completed"
    /\ Truthy(resp.body.url)
    => checkVideoStatusSucceeds(resp)
\* C29: every record written by generate-video, video-status, save-image or
\* image-status has a title, a client and a background that are not null (a
\* default is stored when the request gave none), in the list and in the
\* backing file; finalizing a video never leaves background null or absent.
Described(rec) == Truthy(rec.title) /\ Truthy(rec.client) /\ Truthy(rec.background)
C29_RecordsDescribed ==
    /\ \A i \in 1..Len(generatedVideos) : Described(generatedVideos[i])
    /\ \A i \in 1..Len(videosFile.recs) : Described(videosFile.recs[i])
\* C30: the pending-image metadata is rebuilt from the persisted records at
\* startup: for a video submitted with an image, the record finalized by a
\* completed status poll has the same title, client, background and prompt
\* whether or not the process was restarted between submission and poll.
\* After a restart, the finalized record is compared with the record the
\* same poll builds from the metadata the submission had stored.
C30_RestartTransparent ==
    [][\A h \in inflight :
          /\ PollFinalizes(h)
          /\ env.before[h.id].present /\ ~uploadedImages[h.id].present
          => LET unrestarted == UpsertVideo(generatedVideos,
                                            videoRecord(h.id, VideoAssetUrl(h.id), env.before[h.id],
                                                        generatedVideos, now'))
             IN \A f \in {"title", "client", "background", "prompt"} :
                   MemRecord(generatedVideos', h.id)[f] = MemRecord(unrestarted, h.id)[f]]_vars
\* C31: for every successful POST /generate-video submission, with or
\* without an image, that a status poll later sees completed, the finalized
\* record's prompt is the prompt submitted to the adapter, or "Image-based
\* prompt" if that prompt was image data; it is never "No prompt available".
C31_FinalizedPromptKept ==
    \A i \in 1..Len(generatedVideos) :
       LET rec == generatedVideos[i]
       IN rec.id \in GenIds /\ remote[rec.id].kind = "video" /\ Truthy(rec.url)
          => /\ rec.prompt # NoPromptAvailable
             /\ uploadedImages[rec.id].present
                => rec.prompt = IF InlineImageData(uploadedImages[rec.id].originalPrompt)
                                THEN ImageBasedPrompt
                                ELSE uploadedImages[rec.id].originalPrompt
\* C32: for a POST /upload-and-generate-description request with a
\* well-formed image, whenever the call to the description service fails
\* (missing key, status outside 2xx, no response, timeout, unexpected
\* response shape), the response is an error response with an error field
\* and never a success response whose description is the failure text.
C32_DescriptionFailureReported ==
    [][\A h \in Suspended("describe"), outcome \in DescribeFailures :
          DescribeResume(h, outcome)
          => /\ resp'.op = "describe" /\ resp'.code >= 400
             /\ Truthy(resp'.error)
             /\ resp'.body.imageDescription = ABSENT]_vars
\* C33: for an image generation id whose remote job is completed with an
\* image asset, calling GET /image-status/:id twice leaves exactly one record
\* of that id in the list and in the backing file: the second call adds none.
RecordsOf(list, g) == {i \in 1..Len(list) : list[i].id = g}
PollSawImage(g) ==
    remote[g].kind = "image" /\ remote[g].state = "completed" /\ remote[g].assets = "media"
C33_ImagePollIdempotent ==
    /\ \A g \in GenIds :
          PollSawImage(g) => /\ Cardinality(RecordsOf(generatedVideos, g)) = 1
                             /\ Cardinality(RecordsOf(videosFile.recs, g)) = 1
    /\ [][\A h \in Suspended("image-status") :
             Retires(h) /\ PollSawImage(h.id) /\ RecordsOf(generatedVideos, h.id) # {}
             => generatedVideos' = generatedVideos]_vars
\* C34: for every non-empty prompt sanitizePrompt returns a non-empty string
\* that contains none of the blocklisted terms as a substring, in any letter
\* case, terms formed by joining the text on both sides of a removed term
\* included; when stripping leaves nothing it returns "A creative digital
\* artwork".
C34_SanitizedHasNoTerm ==
    resp.op = "sanitizePrompt"
    => /\ resp.body.prompt # <<>>
       /\ \A k \in 1..Len(Blocklist) : ~Includes(ToLowerCase(resp.body.prompt), Blocklist[k])
       /\ (\A i \in 1..Len(StripTerms(resp.body.originalPrompt)) :
              StripTerms(resp.body.originalPrompt)[i] = " ")
          => resp.body.prompt = CreativeArtwork
C36_FailedStopsPoller ==
    \A g \in GenIds :
       (remote[g].state = "failed" /\ generationId = g) ~> (~isLoading /\ inflight = {})
====
